---- MODULE Spec2Model ----
(***************************************************************************)
(* The Discord bot with recursive tool calling                             *)
(* (src/src/discord-bot-with-llm.ts, lines 147-824): the messageCreate     *)
(* handler, callLLMWithTools, executeToolsRecursively, executeDiscordTool, *)
(* normalizeToolArgs, findGuild and findChannel.                           *)
(*                                                                         *)
(* Strings.  A string is modelled as the sequence of its pieces.  Texts    *)
(* whose characters the code inspects (assistant content, reasoning, tool  *)
(* call arguments, the fixed replies) are written one character per        *)
(* piece, so that length, trim, startsWith, includes, lastIndexOf and      *)
(* substring are computed on characters.  Tool result texts are built the  *)
(* way the template literals build them: one piece per literal part and    *)
(* one per interpolated value.  Identifiers of servers and channels, and   *)
(* the values inside argument objects, are TLA+ strings.                   *)
(***************************************************************************)
EXTENDS Integers, Sequences, FiniteSets, TLC

(***************************************************************************)
(* Bounds of the model (not program constants).                            *)
(***************************************************************************)
\* replies that handlers of other events deliver while this one runs
MaxOtherReplies == 2

(***************************************************************************)
(* Program constants.                                                      *)
(***************************************************************************)
MAX_DEPTH == 5
MAX_LENGTH == 1950
\* the value Date.now() yields when the synthetic tool call is built
Now == 1700

NoticeDepth ==
    <<"M", "a", "x", "i", "m", "u", "m", " ", "t", "o", "o", "l", " ", "c", "a", "l", "l", "i", "n", "g", " ", "d", "e", "p", "t", "h", " ", "r", "e", "a", "c", "h", "e", "d", ".">>

AckText ==
    <<"I", " ", "p", "r", "o", "c", "e", "s", "s", "e", "d", " ", "y", "o", "u", "r", " ", "r", "e", "q", "u", "e", "s", "t", ".">>

ApologyText ==
    <<"S", "o", "r", "r", "y", ",", " ", "I", " ", "e", "n", "c", "o", "u", "n", "t", "e", "r", "e", "d", " ", "a", "n", " ", "e", "r", "r", "o", "r", ".", " ", "P", "l", "e", "a", "s", "e", " ", "t", "r", "y", " ", "a", "g", "a", "i", "n", ".">>

PartOpen ==
    <<"*", "*", "[", "P", "a", "r", "t", " ">>

PartClose ==
    <<"]", "*", "*", "\n", "\n">>

ErrorPrefix == "Error executing tool: "

(***************************************************************************)
(* The texts the language model can produce in this model.                 *)
(***************************************************************************)
TxtHi ==
    <<"H", "i">>

TxtPreambleHi ==
    <<"a", "n", "a", "l", "y", "s", "i", "s", " ", "o", "k", " ", "H", "i">>

TxtBlank ==
    <<" ">>

TxtReason ==
    <<"R", "s", "n">>

TxtJsonRead ==
    <<"{", "\"", "c", "h", "a", "n", "n", "e", "l", "\"", ":", "\"", "g", "e", "n", "e", "r", "a", "l", "\"", "}">>

TxtJsonReadSp ==
    <<" ", "{", "\"", "c", "h", "a", "n", "n", "e", "l", "\"", ":", " ", "\"", "g", "e", "n", "e", "r", "a", "l", "\"", "}">>

TxtJsonBad ==
    <<"{", "\"", "c", "h", "a", "n", "n", "e", "l", "\"", ":">>

\* a label that no capital letter and no ** follows
TxtFinalLower ==
    <<"f", "i", "n", "a", "l", " ", "a", "n", "s", "w", "e", "r">>

\* a label followed by bold text and a trailing blank
TxtLabelStars ==
    <<"a", "s", "s", "i", "s", "t", "a", "n", "t", " ", "o", "k", " ", "*", "*", "D", "o", "n", "e", "*", "*", " ">>

\* a JSON object whose message text is under the synonym key text
TxtJsonText ==
    <<"{", "\"", "c", "h", "a", "n", "n", "e", "l", "\"", ":", "\"", "g", "e", "n", "e", "r", "a", "l", "\"", ",", "\"", "s", "e", "r", "v", "e", "r", "\"", ":", "\"", "g", "1", "\"", ",", "\"", "t", "e", "x", "t", "\"", ":", "\"", "h", "i", "\"", "}">>

\* a JSON object whose message key holds the empty string
TxtJsonEmptyMsg ==
    <<"{", "\"", "c", "h", "a", "n", "n", "e", "l", "\"", ":", "\"", "g", "e", "n", "e", "r", "a", "l", "\"", ",", "\"", "s", "e", "r", "v", "e", "r", "\"", ":", "\"", "g", "1", "\"", ",", "\"", "m", "e", "s", "s", "a", "g", "e", "\"", ":", "\"", "\"", "}">>

\* argument payloads of tool calls
ArgsEmpty == <<>>

ArgsReadOk ==
    <<"{", "\"", "c", "h", "a", "n", "n", "e", "l", "\"", ":", "\"", "g", "e", "n", "e", "r", "a", "l", "\"", ",", "\"", "s", "e", "r", "v", "e", "r", "\"", ":", "\"", "g", "1", "\"", "}">>

ArgsSendOk ==
    <<"{", "\"", "c", "h", "a", "n", "n", "e", "l", "\"", ":", "\"", "#", "g", "e", "n", "e", "r", "a", "l", "\"", ",", "\"", "m", "e", "s", "s", "a", "g", "e", "\"", ":", "\"", "h", "i", "\"", ",", "\"", "s", "e", "r", "v", "e", "r", "\"", ":", "\"", "g", "1", "\"", "}">>

ArgsSendYo ==
    <<"{", "\"", "c", "h", "a", "n", "n", "e", "l", "\"", ":", "\"", "g", "e", "n", "e", "r", "a", "l", "\"", ",", "\"", "m", "e", "s", "s", "a", "g", "e", "\"", ":", "\"", "y", "o", "\"", ",", "\"", "s", "e", "r", "v", "e", "r", "\"", ":", "\"", "g", "1", "\"", "}">>

ArgsNowhere ==
    <<"{", "\"", "c", "h", "a", "n", "n", "e", "l", "\"", ":", "\"", "n", "o", "w", "h", "e", "r", "e", "\"", ",", "\"", "s", "e", "r", "v", "e", "r", "\"", ":", "\"", "g", "1", "\"", "}">>

ArgsLocked ==
    <<"{", "\"", "c", "h", "a", "n", "n", "e", "l", "\"", ":", "\"", "l", "o", "c", "k", "e", "d", "\"", ",", "\"", "s", "e", "r", "v", "e", "r", "\"", ":", "\"", "g", "1", "\"", "}">>

ArgsDup ==
    <<"{", "\"", "c", "h", "a", "n", "n", "e", "l", "\"", ":", "\"", "d", "u", "p", "\"", ",", "\"", "s", "e", "r", "v", "e", "r", "\"", ":", "\"", "g", "1", "\"", "}">>

ArgsBadServer ==
    <<"{", "\"", "c", "h", "a", "n", "n", "e", "l", "\"", ":", "\"", "g", "e", "n", "e", "r", "a", "l", "\"", ",", "\"", "s", "e", "r", "v", "e", "r", "\"", ":", "\"", "n", "o", "p", "e", "\"", "}">>

ArgsSyn ==
    <<"{", "\"", "c", "h", "a", "n", "n", "e", "l", "_", "n", "a", "m", "e", "\"", ":", "\"", "g", "e", "n", "e", "r", "a", "l", "\"", ",", "\"", "s", "e", "r", "v", "e", "r", "_", "n", "a", "m", "e", "\"", ":", "\"", "g", "1", "\"", ",", "\"", "m", "a", "x", "_", "m", "e", "s", "s", "a", "g", "e", "s", "\"", ":", "2", "0", "0", "}">>

ArgsEmptyObj ==
    <<"{", "}">>

\* String.prototype.repeat
RECURSIVE Repeat(_, _)
Repeat(c, n) ==
    IF n = 0 THEN <<>>
    ELSE IF n % 2 = 0 THEN LET half == Repeat(c, n \div 2) IN half \o half
    ELSE <<c>> \o Repeat(c, n - 1)

\* a text of 1000 + 2 + 1000 characters with one paragraph break
TxtLong == Repeat("a", 1000) \o <<"\n", "\n">> \o Repeat("b", 1000)

(***************************************************************************)
(* String functions of the JavaScript runtime, on character sequences.     *)
(***************************************************************************)
IsWhitespace(c) == c \in {" ", "\n", "\t", "\r"}

\* String.prototype.trimStart: from the first non-whitespace character on
TrimStart(t) ==
    IF \A q \in 1..Len(t) : IsWhitespace(t[q]) THEN <<>>
    ELSE SubSeq(t, CHOOSE q \in 1..Len(t) :
                       /\ ~IsWhitespace(t[q])
                       /\ \A r \in 1..(q - 1) : IsWhitespace(t[r]),
                Len(t))

\* String.prototype.trimEnd: up to the last non-whitespace character
TrimEnd(t) ==
    IF \A q \in 1..Len(t) : IsWhitespace(t[q]) THEN <<>>
    ELSE SubSeq(t, 1, CHOOSE q \in 1..Len(t) :
                          /\ ~IsWhitespace(t[q])
                          /\ \A r \in (q + 1)..Len(t) : IsWhitespace(t[r]))

Trim(t) == TrimEnd(TrimStart(t))

\* does pat occur in t at the 0-based index i
MatchAt(t, pat, i) ==
    /\ i >= 0
    /\ i + Len(pat) <= Len(t)
    /\ \A j \in 1..Len(pat) : t[i + j] = pat[j]

StartsWith(t, pat) == MatchAt(t, pat, 0)

Includes(t, pat) == \E i \in 0..Len(t) : MatchAt(t, pat, i)

\* a JavaScript value used as a condition: the empty string is falsy
Truthy(t) == t # <<>>

ChannelKeyNeedle ==
    <<"\"", "c", "h", "a", "n", "n", "e", "l", "\"">>
LabelAnalysis ==
    <<"a", "n", "a", "l", "y", "s", "i", "s">>

LabelAssistant ==
    <<"a", "s", "s", "i", "s", "t", "a", "n", "t">>

LabelCommentary ==
    <<"c", "o", "m", "m", "e", "n", "t", "a", "r", "y">>

LabelFinal ==
    <<"f", "i", "n", "a", "l">>

UpperCase ==
    {"A", "B", "C", "D", "E", "F", "G", "H", "I", "J", "K", "L", "M",
     "N", "O", "P", "Q", "R", "S", "T", "U", "V", "W", "X", "Y", "Z"}

PreambleLabels == <<LabelAnalysis, LabelAssistant, LabelCommentary, LabelFinal>>

SetMin(S) == CHOOSE x \in S : \A y \in S : x <= y

\* content.replace(/^(analysis|assistant|commentary|final).*?(?=\*\*|[A-Z])/gs, '')
StripPreamble(t) ==
    IF \E k \in 1..Len(PreambleLabels) : StartsWith(t, PreambleLabels[k])
    THEN LET k == CHOOSE k \in 1..Len(PreambleLabels) : StartsWith(t, PreambleLabels[k])
             from == Len(PreambleLabels[k])
             stops == {p \in from..(Len(t) - 1) :
                          t[p + 1] \in UpperCase \/ MatchAt(t, <<"*", "*">>, p)}
         IN  IF stops = {} THEN t ELSE SubSeq(t, SetMin(stops) + 1, Len(t))
    ELSE t

(***************************************************************************)
(* JSON.  The JSON texts of the model and the values they denote; every    *)
(* other text of the model is not valid JSON.  The first text listed for   *)
(* a value is the one JSON.stringify produces.                             *)
(***************************************************************************)
EmptyObject == [k \in {} |-> ""]

JsonDocs ==
    << [text |-> TxtJsonRead,   val |-> [channel |-> "general"]],
       [text |-> Trim(TxtJsonReadSp), val |-> [channel |-> "general"]],
       [text |-> ArgsReadOk,    val |-> [channel |-> "general", server |-> "g1"]],
       [text |-> ArgsSendOk,    val |-> [channel |-> "#general", message |-> "hi", server |-> "g1"]],
       [text |-> ArgsSendYo,    val |-> [channel |-> "general", message |-> "yo", server |-> "g1"]],
       [text |-> ArgsNowhere,   val |-> [channel |-> "nowhere", server |-> "g1"]],
       [text |-> ArgsLocked,    val |-> [channel |-> "locked", server |-> "g1"]],
       [text |-> ArgsDup,       val |-> [channel |-> "dup", server |-> "g1"]],
       [text |-> ArgsBadServer, val |-> [channel |-> "general", server |-> "nope"]],
       [text |-> ArgsSyn,       val |-> [channel_name |-> "general", server_name |-> "g1",
                                         max_messages |-> 200]],
       [text |-> ArgsEmptyObj,  val |-> EmptyObject],
       [text |-> TxtJsonText,   val |-> [channel |-> "general", server |-> "g1",
                                         text |-> "hi"]],
       [text |-> TxtJsonEmptyMsg, val |-> [channel |-> "general", server |-> "g1",
                                           message |-> ""]] >>

\* JSON.parse: surrounding whitespace is allowed; ok = FALSE is a SyntaxError
JSONParse(t) ==
    LET hits == {i \in 1..Len(JsonDocs) : JsonDocs[i].text = Trim(t)}
    IN  IF hits = {} THEN [ok |-> FALSE]
        ELSE [ok |-> TRUE, val |-> JsonDocs[SetMin(hits)].val]

JSONStringify(v) ==
    JsonDocs[SetMin({i \in 1..Len(JsonDocs) : JsonDocs[i].val = v})].text

(***************************************************************************)
(* Identifiers.                                                            *)
(***************************************************************************)
\* variant: names are compared as written
ToLowerCaseExact(s) == s

\* String.prototype.toLowerCase on the names of the model
ToLowerCase(s) ==
    CASE s = "Home" -> "home"
      [] s = "HOME" -> "home"
      [] s = "Dup" -> "dup"
      [] s = "General" -> "general"
      [] s = "#General" -> "#general"
      [] OTHER -> s

\* channelIdentifier.replace(/^#/, '')
StripHash(s) ==
    CASE s = "#general" -> "general"
      [] s = "#General" -> "General"
      [] s = "#c1" -> "c1"
      [] OTHER -> s

\* an optional value is a sequence of at most one element; !x holds of
\* undefined and of the empty string
Falsy(opt) == opt = <<>> \/ opt = <<"">>

Arg(args, key) == IF key \in DOMAIN args THEN <<args[key]>> ELSE <<>>

Ok(v) == [ok |-> TRUE, val |-> v]
Err(msg) == [ok |-> FALSE, error |-> msg]

\* Array.prototype.join, on strings given as piece sequences
RECURSIVE Join(_, _)
Join(items, sep) ==
    IF items = <<>> THEN <<>>
    ELSE IF Len(items) = 1 THEN items[1]
    ELSE items[1] \o sep \o Join(Tail(items), sep)

JoinComma(items) == Join(items, <<", ">>)

MapSeq(s, F(_)) == [i \in 1..Len(s) |-> F(s[i])]

Reverse(s) == [i \in 1..Len(s) |-> s[Len(s) + 1 - i]]

(***************************************************************************)
(* findGuild, findChannel.  guilds and channels are the client's caches,   *)
(* in insertion order.                                                     *)
(***************************************************************************)
\* variant: the first server is used whenever there is one
OnlyGuildOrFirst(guilds) == Len(guilds) >= 1

\* client.guilds.cache.size === 1
OnlyGuild(guilds) == Len(guilds) = 1

findGuild(guilds, guildIdentifier) ==
    IF Falsy(guildIdentifier)
    THEN IF OnlyGuild(guilds)
         THEN Ok(guilds[1])
         ELSE Err(<<"Bot is in ", ToString(Len(guilds)),
                    " servers. Please specify server name or ID.">>)
    ELSE LET ident == guildIdentifier[1]
             byId == SelectSeq(guilds, LAMBDA g : g.id = ident)
             byName == SelectSeq(guilds,
                           LAMBDA g : ToLowerCase(g.name) = ToLowerCase(ident))
         IN  IF byId # <<>>
             THEN Ok(byId[1])
             ELSE IF Len(byName) = 0
                  THEN Err(<<"Server \"", ident, "\" not found.">>)
                  ELSE IF Len(byName) > 1
                       THEN Err(<<"Multiple servers found with name \"", ident, "\": ">>
                                \o JoinComma(MapSeq(byName,
                                       LAMBDA g : <<g.name, " (ID: ", g.id, ")">>)))
                       ELSE Ok(byName[1])

\* variant: the server of the fetched channel is not compared
UsableAnyServer(channel, guild) == channel.isText

\* channel instanceof TextChannel && channel.guild.id === guild.id
Usable(channel, guild) == channel.isText /\ channel.guildId = guild.id

findChannel(guilds, channels, channelIdentifier, guildIdentifier) ==
    LET found == findGuild(guilds, guildIdentifier)
    IN  IF ~found.ok THEN found
        ELSE IF channelIdentifier = <<>>
        THEN Err(<<"Cannot read properties of undefined (reading 'replace')">>)
        ELSE
        LET guild == found.val
            ident == channelIdentifier[1]
            cleanChannelName == StripHash(ident)
            byId == SelectSeq(channels, LAMBDA c : c.id = cleanChannelName)
            byName == SelectSeq(channels,
                          LAMBDA c : /\ c.guildId = guild.id
                                     /\ c.isText
                                     /\ ToLowerCase(c.name) = ToLowerCase(cleanChannelName))
        IN  IF byId # <<>>
            THEN IF Usable(byId[1], guild)
                 THEN Ok([channel |-> byId[1], guild |-> guild])
                 ELSE Err(<<"Channel \"", ident, "\" not found">>)
            ELSE IF Len(byName) = 0
                 THEN Err(<<"Channel \"", ident, "\" not found in server \"",
                            guild.name, "\".">>)
                 ELSE IF Len(byName) > 1
                      THEN Err(<<"Multiple channels found with name \"", ident, "\": ">>
                               \o JoinComma(MapSeq(byName,
                                      LAMBDA c : <<"#", c.name, " (", c.id, ")">>)))
                      ELSE Ok([channel |-> byName[1], guild |-> guild])

(***************************************************************************)
(* normalizeToolArgs.                                                      *)
(***************************************************************************)
\* Object.entries order of the two mapping tables
mappings ==
    [read_messages |-> << <<"channel_name", "channel">>, <<"server_name", "server">>,
                          <<"message_limit", "limit">>, <<"max_messages", "limit">> >>,
     send_message  |-> << <<"channel_name", "channel">>, <<"server_name", "server">>,
                          <<"content", "message">>, <<"text", "message">> >>]

validParams ==
    [read_messages |-> {"channel", "server", "limit"},
     send_message  |-> {"channel", "server", "message"},
     list_servers  |-> {}]

\* names every object literal inherits: mappings[name] and validParams[name]
\* are truthy for them, with no entries and no includes method
InheritedNames == {"constructor", "toString"}

\* variant: a synonym overwrites the canonical key
RECURSIVE ApplyMappingsOverwriting(_, _, _)
ApplyMappingsOverwriting(normalized, pairs, i) ==
    IF i > Len(pairs) THEN normalized
    ELSE IF pairs[i][1] \in DOMAIN normalized
         THEN ApplyMappingsOverwriting(
                  [k \in (DOMAIN normalized \ {pairs[i][1]}) \cup {pairs[i][2]} |->
                      IF k = pairs[i][2] THEN normalized[pairs[i][1]] ELSE normalized[k]],
                  pairs, i + 1)
         ELSE ApplyMappingsOverwriting(normalized, pairs, i + 1)

\* the loop over Object.entries(mappings[toolName])
RECURSIVE ApplyMappings(_, _, _)
ApplyMappings(normalized, pairs, i) ==
    IF i > Len(pairs) THEN normalized
    ELSE LET wrongName == pairs[i][1]
             correctName == pairs[i][2]
         IN  IF wrongName \in DOMAIN normalized /\ correctName \notin DOMAIN normalized
             THEN ApplyMappings(
                      [k \in (DOMAIN normalized \ {wrongName}) \cup {correctName} |->
                          IF k = correctName THEN normalized[wrongName] ELSE normalized[k]],
                      pairs, i + 1)
             ELSE ApplyMappings(normalized, pairs, i + 1)

\* variant: normalized is the caller's object itself
CallerArgsAliased(args, normalized) == normalized

\* const normalized = { ...args }: the caller's object after the call
CallerArgs(args, normalized) == args

normalizeToolArgs(toolName, args) ==
    LET renamed == IF toolName \in DOMAIN mappings
                   THEN ApplyMappings(args, mappings[toolName], 1)
                   ELSE args
    IN  IF toolName \in DOMAIN validParams
        THEN Ok([k \in DOMAIN renamed \cap validParams[toolName] |-> renamed[k]])
        ELSE IF toolName \in InheritedNames /\ DOMAIN renamed # {}
             THEN Err(<<"validParams[toolName].includes is not a function">>)
             ELSE Ok(renamed)

(***************************************************************************)
(* executeDiscordTool.  history maps a channel id to its messages, oldest  *)
(* first.  denied is the set of channels in which the platform rejects the *)
(* bot's fetches and sends (missing access).  The outcome names the result *)
(* string, the platform operations performed and the history afterwards.   *)
(***************************************************************************)
BotTag == "AIMI#0001"

Min(a, b) == IF a <= b THEN a ELSE b

\* the last n elements of s, newest first: channel.messages.fetch({limit: n})
FetchNewest(s, n) ==
    LET k == IF n <= 0 THEN 0 ELSE Min(n, Len(s))
    IN  [i \in 1..k |-> s[Len(s) + 1 - i]]

FormatMessages(msgs) ==
    <<"[">> \o JoinComma(MapSeq(msgs,
                 LAMBDA m : <<"{author: ", m.author, ", content: ", m.content, "}">>))
            \o <<"]">>

ListServers(guilds, channels) ==
    <<"[">> \o JoinComma(MapSeq(guilds,
                 LAMBDA g : <<"{name: ", g.name, ", id: ", g.id, ", channels: ">>
                            \o JoinComma(MapSeq(
                                   SubSeq(SelectSeq(channels,
                                              LAMBDA c : c.guildId = g.id /\ c.isText),
                                          1,
                                          Min(20, Len(SelectSeq(channels,
                                              LAMBDA c : c.guildId = g.id /\ c.isText)))),
                                   LAMBDA c : <<"#" \o c.name>>))
                            \o <<"}">>))
            \o <<"]">>

\* variant: the default branch returns an empty result instead of throwing
UnknownToolSilent(toolName, history) ==
    [ok |-> TRUE, result |-> <<>>, ops |-> <<>>, history |-> history]

\* the default branch of the switch: throw new Error(`Unknown tool: ...`)
UnknownTool(toolName, history) ==
    [ok |-> FALSE, error |-> <<"Unknown tool: ", toolName>>, ops |-> <<>>,
     history |-> history]

\* variant: the catch block rethrows
CaughtRethrows(body) ==
    [threw |-> TRUE, error |-> body.error, result |-> <<>>, ops |-> body.ops,
     history |-> body.history]

\* the catch block: the error becomes the returned string
Caught(body) ==
    [threw |-> FALSE, result |-> <<ErrorPrefix>> \o body.error, ops |-> body.ops,
     history |-> body.history]

\* throw: the platform operations made so far stay made
Throws(msg, ops, history) ==
    [ok |-> FALSE, error |-> msg, ops |-> ops, history |-> history]

\* case 'read_messages', after the channel is resolved
ReadMessages(channel, guild, count, history, denied) ==
    IF channel.id \in denied
    THEN Throws(<<"Missing Access">>,
                <<[op |-> "fetch", channel |-> channel.id, limit |-> count,
                   ok |-> FALSE]>>, history)
    ELSE [ok |-> TRUE,
          result |-> <<"Messages from #", channel.name, " in ", guild.name, ":\n">>
                     \o FormatMessages(Reverse(FetchNewest(history[channel.id], count))),
          ops |-> <<[op |-> "fetch", channel |-> channel.id, limit |-> count,
                     ok |-> TRUE]>>,
          history |-> history]

\* case 'send_message', after the channel is resolved
SendMessage(channel, guild, message, sentId, history, denied) ==
    IF Falsy(message)
    THEN Throws(<<"Cannot send an empty message">>,
                <<[op |-> "send", channel |-> channel.id, message |-> message,
                   ok |-> FALSE]>>, history)
    ELSE IF channel.id \in denied
    THEN Throws(<<"Missing Permissions">>,
                <<[op |-> "send", channel |-> channel.id, message |-> message,
                   ok |-> FALSE]>>, history)
    ELSE [ok |-> TRUE,
          result |-> <<"Message sent successfully to #", channel.name, " in ",
                       guild.name, ". Message ID: ", sentId>>,
          ops |-> <<[op |-> "send", channel |-> channel.id, message |-> message,
                     ok |-> TRUE]>>,
          history |-> [history EXCEPT ![channel.id] =
                          Append(@, [id |-> sentId, author |-> BotTag,
                                     content |-> message[1]])]]

\* the switch on toolName, on the normalized arguments
Switch(toolName, normalizedArgs, found, guilds, channels, history, denied) ==
    CASE toolName = "list_servers" ->
           [ok |-> TRUE, result |-> ListServers(guilds, channels), ops |-> <<>>,
            history |-> history]
      [] toolName = "read_messages" ->
           IF ~found.ok THEN Throws(found.error, <<>>, history)
           ELSE ReadMessages(found.val.channel, found.val.guild,
                             Min(IF "limit" \in DOMAIN normalizedArgs
                                 THEN normalizedArgs["limit"] ELSE 50, 100),
                             history, denied)
      [] toolName = "send_message" ->
           IF ~found.ok THEN Throws(found.error, <<>>, history)
           ELSE SendMessage(found.val.channel, found.val.guild,
                            Arg(normalizedArgs, "message"),
                            "m" \o ToString(Len(history[found.val.channel.id]) + 1),
                            history, denied)
      [] OTHER ->
           UnknownTool(toolName, history)

\* the try block from the normalized arguments on
Normalized(toolName, normalized, guilds, channels, history, denied) ==
    IF ~normalized.ok THEN Throws(normalized.error, <<>>, history)
    ELSE Switch(toolName, normalized.val,
                findChannel(guilds, channels, Arg(normalized.val, "channel"),
                            Arg(normalized.val, "server")),
                guilds, channels, history, denied)

\* the body of the try block: ok = FALSE when it throws
TryExecute(toolName, args, guilds, channels, history, denied) ==
    Normalized(toolName, normalizeToolArgs(toolName, args), guilds, channels, history,
               denied)

\* what leaves the function: the returned string, or the error the catch
\* block turned into one
Returned(body) ==
    IF body.ok
    THEN [threw |-> FALSE, result |-> body.result, ops |-> body.ops,
          history |-> body.history]
    ELSE Caught(body)

\* the try block with its catch: threw tells whether an error leaves the
\* function
executeDiscordTool(toolName, args, guilds, channels, history, denied) ==
    Returned(TryExecute(toolName, args, guilds, channels, history, denied))

HasErrorPrefix(result) == result # <<>> /\ result[1] = ErrorPrefix

(***************************************************************************)
(* The tools as the MCP server exposes them.  A request names a tool and   *)
(* carries an argument object; it is served by the CallToolRequestSchema   *)
(* handler of one of three entry points: the MCP + chat entry point, which *)
(* has its own findGuild and findChannel and parses the arguments with the *)
(* zod schemas, and the two tool-calling variants, whose handlers pass the *)
(* request to their executeDiscordTool.  The argument values of the model  *)
(* are strings and numbers of the declared types, present or absent.       *)
(***************************************************************************)
\* findGuild of the MCP + chat entry point
findGuildChat(guilds, guildIdentifier) ==
    IF Falsy(guildIdentifier)
    THEN IF Len(guilds) = 1
         THEN Ok(guilds[1])
         ELSE Err(<<"Bot is in ", ToString(Len(guilds)),
                    " servers. Use 'list-servers' tool to see available servers, then specify server name or ID.">>)
    ELSE LET ident == guildIdentifier[1]
             byId == SelectSeq(guilds, LAMBDA g : g.id = ident)
             byName == SelectSeq(guilds,
                           LAMBDA g : ToLowerCase(g.name) = ToLowerCase(ident))
         IN  IF byId # <<>>
             THEN Ok(byId[1])
             ELSE IF Len(byName) = 0
                  THEN Err(<<"Server \"", ident,
                             "\" not found. Use 'list-servers' tool to see available servers.">>)
                  ELSE IF Len(byName) > 1
                       THEN Err(<<"Multiple servers found with name \"", ident, "\": ">>
                                \o JoinComma(MapSeq(byName,
                                       LAMBDA g : <<g.name, " (ID: ", g.id, ")">>))
                                \o <<". Please specify the server ID.">>)
                       ELSE Ok(byName[1])

\* findChannel of the MCP + chat entry point: the identifier is fetched as
\* an ID as written, and a '#' is dropped only for the name comparison
findChannelChat(guilds, channels, channelIdentifier, guildIdentifier) ==
    LET found == findGuildChat(guilds, guildIdentifier)
    IN  IF ~found.ok THEN found
        ELSE
        LET guild == found.val
            byId == SelectSeq(channels, LAMBDA c : c.id = channelIdentifier)
            byName == SelectSeq(channels,
                          LAMBDA c : /\ c.guildId = guild.id
                                     /\ c.isText
                                     /\ ToLowerCase(c.name) \in
                                            {ToLowerCase(channelIdentifier),
                                             StripHash(ToLowerCase(channelIdentifier))})
        IN  IF byId # <<>>
            THEN IF byId[1].isText /\ byId[1].guildId = guild.id
                 THEN Ok([channel |-> byId[1], guild |-> guild])
                 ELSE Err(<<"Channel \"", channelIdentifier,
                            "\" is not a text channel or not found in server \"",
                            guild.name, "\"">>)
            ELSE IF Len(byName) = 0
                 THEN Err(<<"Channel \"", channelIdentifier, "\" not found in server \"",
                            guild.name,
                            "\". Use 'list-servers' tool to see available channels.">>)
                 ELSE IF Len(byName) > 1
                      THEN Err(<<"Multiple channels found with name \"", channelIdentifier,
                                 "\" in server \"", guild.name, "\": ">>
                               \o JoinComma(MapSeq(byName,
                                      LAMBDA c : <<"#", c.name, " (", c.id, ")">>))
                               \o <<". Please specify the channel ID.">>)
                      ELSE Ok([channel |-> byName[1], guild |-> guild])

\* the issue zod reports for a required key that is absent
Required(args, key) ==
    IF key \in DOMAIN args THEN <<>> ELSE << <<key, ":  ", "Required">> >>

\* z.number().min(1).max(100) on a present limit
LimitIssues(args) ==
    IF "limit" \notin DOMAIN args THEN <<>>
    ELSE IF args["limit"] < 1
    THEN << <<"limit", ":  ", "Number must be greater than or equal to 1">> >>
    ELSE IF args["limit"] > 100
    THEN << <<"limit", ":  ", "Number must be less than or equal to 100">> >>
    ELSE <<>>

\* the object a schema lets through: the declared keys only
Declared(args, keys) == [k \in (DOMAIN args) \cap keys |-> args[k]]

\* SendMessageSchema.parse: issues in the order of the schema's keys
SendMessageSchema(args) ==
    [issues |-> Required(args, "channel") \o Required(args, "message"),
     val |-> Declared(args, {"server", "channel", "message"})]

\* ReadMessagesSchema.parse: an absent limit becomes 50
ReadMessagesSchema(args) ==
    [issues |-> Required(args, "channel") \o LimitIssues(args),
     val |-> IF "limit" \in DOMAIN args
             THEN Declared(args, {"server", "channel", "limit"})
             ELSE Declared(args, {"server", "channel"}) @@ [limit |-> 50]]

\* the handler's catch block on a ZodError
InvalidArguments(issues, history) ==
    Throws(<<"Invalid arguments: ">> \o JoinComma(issues), <<>>, history)

\* the objects the read-messages case of the MCP + chat entry point builds
FormatMessagesChat(channel, guild, msgs) ==
    <<"[">> \o JoinComma(MapSeq(msgs,
                 LAMBDA m : <<"{channel: #", channel.name, ", server: ", guild.name,
                              ", author: ", m.author, ", content: ", m.content, "}">>))
            \o <<"]">>

\* case "read-messages" of the MCP + chat entry point, after the channel is
\* resolved: the fetched messages are mapped in the order of the fetch
ReadMessagesChat(channel, guild, limit, history, denied) ==
    IF channel.id \in denied
    THEN Throws(<<"Missing Access">>,
                <<[op |-> "fetch", channel |-> channel.id, limit |-> limit,
                   ok |-> FALSE]>>, history)
    ELSE [ok |-> TRUE,
          result |-> FormatMessagesChat(channel, guild,
                                        FetchNewest(history[channel.id], limit)),
          ops |-> <<[op |-> "fetch", channel |-> channel.id, limit |-> limit,
                     ok |-> TRUE]>>,
          history |-> history]

\* case "list-servers" of the MCP + chat entry point
ListServersChat(guilds, channels) ==
    <<"[">> \o JoinComma(MapSeq(guilds,
                 LAMBDA g : <<"{id: ", g.id, ", name: ", g.name, ", channels: ">>
                            \o JoinComma(MapSeq(
                                   SubSeq(SelectSeq(channels,
                                              LAMBDA c : c.guildId = g.id /\ c.isText),
                                          1,
                                          Min(10, Len(SelectSeq(channels,
                                              LAMBDA c : c.guildId = g.id /\ c.isText)))),
                                   LAMBDA c : <<"{id: ", c.id, ", name: ", c.name, "}">>))
                            \o <<"}">>))
            \o <<"]">>

\* case "send-message", from the parsed arguments on
SendParsed(parsed, found, history, denied) ==
    IF parsed.issues # <<>> THEN InvalidArguments(parsed.issues, history)
    ELSE IF ~found.ok THEN Throws(found.error, <<>>, history)
    ELSE SendMessage(found.val.channel, found.val.guild, <<parsed.val["message"]>>,
                     "m" \o ToString(Len(history[found.val.channel.id]) + 1),
                     history, denied)

\* case "read-messages", from the parsed arguments on
ReadParsed(parsed, found, history, denied) ==
    IF parsed.issues # <<>> THEN InvalidArguments(parsed.issues, history)
    ELSE IF ~found.ok THEN Throws(found.error, <<>>, history)
    ELSE ReadMessagesChat(found.val.channel, found.val.guild, parsed.val["limit"],
                          history, denied)

\* the channel the parsed arguments name; looked up only when they are valid
FoundParsed(parsed, guilds, channels) ==
    IF parsed.issues # <<>> THEN Err(<<>>)
    ELSE findChannelChat(guilds, channels, parsed.val["channel"],
                         Arg(parsed.val, "server"))

\* the switch of the handler of the MCP + chat entry point
SwitchChat(name, args, guilds, channels, history, denied) ==
    CASE name = "list-servers" ->
           [ok |-> TRUE, result |-> ListServersChat(guilds, channels), ops |-> <<>>,
            history |-> history]
      [] name = "send-message" ->
           SendParsed(SendMessageSchema(args),
                      FoundParsed(SendMessageSchema(args), guilds, channels),
                      history, denied)
      [] name = "read-messages" ->
           ReadParsed(ReadMessagesSchema(args),
                      FoundParsed(ReadMessagesSchema(args), guilds, channels),
                      history, denied)
      [] OTHER ->
           UnknownTool(name, history)

\* what leaves a CallToolRequestSchema handler: the text of the returned
\* content, or the error it throws
Served(body) ==
    IF body.ok
    THEN [threw |-> FALSE, result |-> body.result, error |-> <<>>, ops |-> body.ops,
          history |-> body.history]
    ELSE [threw |-> TRUE, result |-> <<>>, error |-> body.error, ops |-> body.ops,
          history |-> body.history]

\* the handler of the MCP + chat entry point
CallToolChat(name, args, guilds, channels, history, denied) ==
    Served(SwitchChat(name, args, guilds, channels, history, denied))

\* name.replace('-', '_') on the names of the model
ReplaceDash(name) ==
    CASE name = "list-servers" -> "list_servers"
      [] name = "send-message" -> "send_message"
      [] name = "read-messages" -> "read_messages"
      [] name = "delete-channel" -> "delete_channel"
      [] OTHER -> name

\* the returned string of an executeDiscordTool as the handler's content
ServedText(out) ==
    [threw |-> out.threw, result |-> out.result, error |-> <<>>, ops |-> out.ops,
     history |-> out.history]

\* the handler of the recursive tool-calling variant
CallTool(name, args, guilds, channels, history, denied) ==
    ServedText(executeDiscordTool(ReplaceDash(name), args, guilds, channels, history,
                                  denied))

\* executeDiscordTool of the single-round variant: the same switch, on the
\* arguments as they arrive
executeDiscordToolSingleRound(toolName, args, guilds, channels, history, denied) ==
    Returned(Switch(toolName, args,
                    findChannel(guilds, channels, Arg(args, "channel"),
                                Arg(args, "server")),
                    guilds, channels, history, denied))

\* the handler of the single-round variant
CallToolSingleRound(name, args, guilds, channels, history, denied) ==
    ServedText(executeDiscordToolSingleRound(ReplaceDash(name), args, guilds, channels,
                                             history, denied))

(***************************************************************************)
(* The splitting of a long answer (messageCreate handler).                 *)
(***************************************************************************)
SetMax(S) == CHOOSE x \in S : \A y \in S : y <= x

\* String.prototype.lastIndexOf(pat, fromIndex): 0-based, -1 when absent
LastIndexOf(t, pat, fromIndex) ==
    LET hits == {i \in 0..Min(fromIndex, Len(t) - Len(pat)) : MatchAt(t, pat, i)}
    IN  IF hits = {} THEN -1 ELSE SetMax(hits)

\* variant: the end index is left out, as in substring(from)
SubstringToEnd(t, from, to) == SubSeq(t, from + 1, Len(t))

\* variant: the substring starts one character late
SubstringLate(t, from, to) == SubSeq(t, from + 2, Min(to, Len(t)))

\* String.prototype.substring(from, to), 0-based, to exclusive
Substring(t, from, to) == SubSeq(t, from + 1, Min(to, Len(t)))

\* variant: the end of a sentence is preferred to a paragraph break
SplitPointSentenceFirst(remaining) ==
    LET paragraphBreak == LastIndexOf(remaining, <<"\n", "\n">>, MAX_LENGTH)
        sentenceEnd == LastIndexOf(remaining, <<".", " ">>, MAX_LENGTH)
        lineBreak == LastIndexOf(remaining, <<"\n">>, MAX_LENGTH)
    IN  IF 10 * sentenceEnd > 7 * MAX_LENGTH THEN sentenceEnd + 1
        ELSE IF 2 * paragraphBreak > MAX_LENGTH THEN paragraphBreak
        ELSE IF 10 * lineBreak > 7 * MAX_LENGTH THEN lineBreak
        ELSE MAX_LENGTH

\* the split point of one chunk; MAX_LENGTH * 0.5 = 975 and
\* MAX_LENGTH * 0.7 = 1365 exactly
SplitPoint(remaining) ==
    LET paragraphBreak == LastIndexOf(remaining, <<"\n", "\n">>, MAX_LENGTH)
        sentenceEnd == LastIndexOf(remaining, <<".", " ">>, MAX_LENGTH)
        lineBreak == LastIndexOf(remaining, <<"\n">>, MAX_LENGTH)
    IN  IF 2 * paragraphBreak > MAX_LENGTH THEN paragraphBreak
        ELSE IF 10 * sentenceEnd > 7 * MAX_LENGTH THEN sentenceEnd + 1
        ELSE IF 10 * lineBreak > 7 * MAX_LENGTH THEN lineBreak
        ELSE MAX_LENGTH

RECURSIVE SplitParts(_)
SplitParts(remaining) ==
    IF Len(remaining) = 0 THEN <<>>
    ELSE IF Len(remaining) <= MAX_LENGTH THEN <<remaining>>
    ELSE LET splitPoint == SplitPoint(remaining)
         IN  <<Trim(Substring(remaining, 0, splitPoint))>>
             \o SplitParts(Trim(Substring(remaining, splitPoint, Len(remaining))))

RECURSIVE Digits(_)
Digits(n) ==
    LET d == <<"0", "1", "2", "3", "4", "5", "6", "7", "8", "9">>
    IN  IF n < 10 THEN <<d[n + 1]>> ELSE Digits(n \div 10) \o <<d[(n % 10) + 1]>>

(***************************************************************************)
(* The state of one run of the messageCreate handler.                      *)
(***************************************************************************)
VARIABLES
    guilds,            \* client.guilds.cache
    channels,          \* client.channels.cache
    denied,            \* channels in which the platform rejects fetch and send
    history,           \* the messages of every channel, oldest first
    apiKeySet,         \* OPENROUTER_API_KEY is configured
    pc,                \* the handler's position
    event,             \* the inbound message
    messages,          \* executeToolsRecursively: messages
    assistantMessage,  \* executeToolsRecursively: assistantMessage
    depth,             \* executeToolsRecursively: depth
    toolResults,       \* executeToolsRecursively: toolResults
    request,           \* the messages array of the latest completion request
    requestCount,      \* completion requests sent
    executed,          \* the tool calls executed, with the depth of their round
    platformOps,       \* the fetches and sends the tool calls made
    rounds,            \* tool-executing rounds started
    synthAt,           \* the depths at which a tool call was synthesized
    response,          \* messageCreate: response
    parts,             \* messageCreate: parts
    partIdx,           \* messageCreate: i + 1 of the reply in flight
    replyCalls,        \* the texts passed to message.reply
    replies,           \* the replies delivered to the user
    error,             \* the error thrown to the handler
    failedStep,        \* the step that threw it
    call,              \* a single call of executeDiscordTool: its inputs
    outcome,           \* a single call of executeDiscordTool: its outcome
    peer               \* callLLMWithTools running for a concurrent event

vars == <<guilds, channels, denied, history, apiKeySet, pc, event, messages,
          assistantMessage, depth, toolResults, request, requestCount, executed,
          platformOps, rounds, synthAt, response, parts, partIdx, replyCalls, replies,
          error, failedStep, call, outcome, peer>>

loopVars == <<messages, assistantMessage, depth, toolResults, request, requestCount,
              executed, platformOps, rounds, synthAt>>

replyVars == <<response, parts, partIdx, replyCalls, replies>>

worldVars == <<guilds, channels, denied, apiKeySet, event, call, outcome, peer>>

(***************************************************************************)
(* The servers, channels and inbound messages of the model.                *)
(***************************************************************************)
Guilds0 ==
    << [id |-> "g1", name |-> "Home"], [id |-> "g2", name |-> "home"] >>

Channels0 ==
    << [id |-> "c1", name |-> "general", guildId |-> "g1", isText |-> TRUE],
       [id |-> "c2", name |-> "voice",   guildId |-> "g1", isText |-> FALSE],
       [id |-> "c3", name |-> "dup",     guildId |-> "g1", isText |-> TRUE],
       [id |-> "c4", name |-> "Dup",     guildId |-> "g1", isText |-> TRUE],
       [id |-> "c5", name |-> "general", guildId |-> "g2", isText |-> TRUE],
       [id |-> "c6", name |-> "locked",  guildId |-> "g1", isText |-> TRUE] >>

Denied0 == {"c6"}

History0 ==
    [c \in {"c1", "c2", "c3", "c4", "c5", "c6", "dm1"} |->
        IF c = "c1"
        THEN <<[id |-> "m1", author |-> "alice", content |-> "hello"]>>
        ELSE <<>>]

MentionTokens == {"<@42>", "<@!42>"}

InboundMessages ==
    { [authorBot |-> FALSE, mentioned |-> TRUE, isDM |-> FALSE, channelId |-> "c1",
       guildName |-> <<"Home">>, content |-> <<"<@42>", " ", "h", "i">>],
      [authorBot |-> FALSE, mentioned |-> FALSE, isDM |-> TRUE, channelId |-> "dm1",
       guildName |-> <<>>, content |-> <<"h", "i">>],
      [authorBot |-> TRUE, mentioned |-> TRUE, isDM |-> FALSE, channelId |-> "c1",
       guildName |-> <<"Home">>, content |-> <<"<@42>", " ", "h", "i">>],
      [authorBot |-> FALSE, mentioned |-> FALSE, isDM |-> FALSE, channelId |-> "c1",
       guildName |-> <<"Home">>, content |-> <<"h", "i">>] }

(***************************************************************************)
(* The assistant turns the completion endpoint can return.                 *)
(***************************************************************************)
ToolCall(id, name, arguments) ==
    [id |-> id, type |-> "function", function |-> [name |-> name, arguments |-> arguments]]

Assistant(content, reasoning, calls) ==
    [role |-> "assistant", content |-> content, reasoning |-> reasoning,
     tool_calls |-> calls]

Responses ==
    { \* answers
      Assistant(TxtPreambleHi, TxtReason, <<>>),
      Assistant(<<>>, TxtReason, <<>>),
      Assistant(TxtBlank, <<>>, <<>>),
      Assistant(TxtLong, <<>>, <<>>),
      Assistant(TxtJsonBad, <<>>, <<>>),
      \* a tool call written as text
      Assistant(TxtJsonReadSp, <<>>, <<>>),
      \* structured tool calls
      Assistant(<<>>, <<>>,
                <<ToolCall("call_1", "read_messages", ArgsLocked),
                  ToolCall("call_2", "read_messages", ArgsReadOk)>>),
      Assistant(TxtHi, TxtReason,
                <<ToolCall("call_1", "send_message", ArgsSendOk),
                  ToolCall("call_2", "read_messages", ArgsNowhere),
                  ToolCall("call_3", "read_messages", ArgsSyn)>>),
      Assistant(TxtHi, <<>>,
                <<ToolCall("call_1", "delete_channel", TxtJsonRead),
                  ToolCall("call_2", "read_messages", ArgsDup),
                  ToolCall("call_1", "read_messages", TxtJsonBad),
                  ToolCall("call_4", "list_servers", ArgsEmpty)>>) }

\* ways a completion request fails: the endpoint is unreachable, or it
\* answers a non-success status with the error envelope {error: {message}}
FailKinds == {"unreachable", "status"}

EnvelopeMessage == "Provider returned error"

(***************************************************************************)
(* Parts of executeToolsRecursively.                                       *)
(***************************************************************************)
Field(turn, name) == IF name \in DOMAIN turn THEN turn[name] ELSE <<>>

\* variant: depth > MAX_DEPTH
DepthExceededOffByOne(d) == d > MAX_DEPTH

\* depth >= MAX_DEPTH
DepthExceeded(d) == d >= MAX_DEPTH

\* assistantMessage.reasoning || assistantMessage.content || '...'
DepthExceededText(am) ==
    IF Truthy(Field(am, "reasoning")) THEN Field(am, "reasoning")
    ELSE IF Truthy(Field(am, "content")) THEN Field(am, "content")
    ELSE NoticeDepth

\* the JSON sniffing condition on content
LooksLikeToolCall(content) ==
    /\ Truthy(content)
    /\ StartsWith(Trim(content), <<"{">>)
    /\ Includes(content, ChannelKeyNeedle)

\* variant: content that looks like a tool call is recovered first
NoToolCallsOrJson(am) ==
    Field(am, "tool_calls") = <<>> \/ LooksLikeToolCall(Field(am, "content"))

\* !assistantMessage.tool_calls || assistantMessage.tool_calls.length === 0
NoToolCalls(am) == Field(am, "tool_calls") = <<>>

syntheticToolCall(args) ==
    LET toolName == IF "message" \in DOMAIN args /\ args["message"] # ""
                    THEN "send_message" ELSE "read_messages"
    IN  [tool_calls |-> <<ToolCall("synthetic_" \o ToString(Now), toolName,
                                   JSONStringify(args))>>]

\* variant: the reasoning text is preferred to the content
FinalTextReasoningFirst(am) ==
    IF Truthy(Field(am, "reasoning")) THEN Field(am, "reasoning")
    ELSE IF Truthy(Trim(StripPreamble(Field(am, "content"))))
    THEN Trim(StripPreamble(Field(am, "content")))
    ELSE AckText

\* the text returned for a turn without tool calls
FinalText(am) ==
    LET content == Field(am, "content")
        cleaned == IF Truthy(content) THEN Trim(StripPreamble(content)) ELSE content
    IN  IF ~Truthy(cleaned)
        THEN IF Truthy(Field(am, "reasoning")) THEN Field(am, "reasoning") ELSE AckText
        ELSE cleaned

\* variant: a payload that cannot be decoded is replaced by the arguments
\* of a read of the first channel
ParseArgumentsGuessed(arguments) ==
    IF Truthy(arguments) /\ JSONParse(arguments).ok
    THEN JSONParse(arguments).val
    ELSE [channel |-> "c1", server |-> "g1"]

\* the argument object the tool loop passes to executeDiscordTool
ParseArguments(arguments) ==
    IF Truthy(arguments) /\ Trim(arguments) # <<>>
    THEN LET parsed == JSONParse(arguments)
         IN  IF parsed.ok THEN parsed.val ELSE EmptyObject
    ELSE EmptyObject

\* variant: the result is tagged with the function name
ToolResultTurnByName(toolCall, result) ==
    [tool_call_id |-> toolCall.function.name, role |-> "tool", content |-> result]

\* the turn pushed to toolResults for a tool call
ToolResultTurn(toolCall, result) ==
    [tool_call_id |-> toolCall.id, role |-> "tool", content |-> result]

\* variant: the loop is left after the first result
RoundCompleteEarly(calls, results) == Len(results) >= 1

\* the for loop over tool_calls has run to its end
RoundComplete(calls, results) == Len(results) = Len(calls)

\* variant: the follow-up turn is handled at the same depth
NextDepthSame(d) == d

\* the depth the follow-up turn is handled at: depth + 1
NextDepth(d) == d + 1

\* variant: the catch block replies with the error's message
CatchReplyEcho(err) == err

\* the text the catch block replies with
CatchReply(err) == ApologyText

\* variant: every reply carries a marker
HeaderAlways(i, n) ==
    PartOpen \o Digits(i) \o <<"/">> \o Digits(n) \o PartClose

\* variant: the marker counts from zero
HeaderFromZero(i, n) ==
    IF n > 1 THEN PartOpen \o Digits(i - 1) \o <<"/">> \o Digits(n) \o PartClose
    ELSE <<>>

\* the part marker of reply i of n
Header(i, n) ==
    IF n > 1 THEN PartOpen \o Digits(i) \o <<"/">> \o Digits(n) \o PartClose ELSE <<>>

RemoveMentions(t) == SelectSeq(t, LAMBDA p : p \notin MentionTokens)

SystemPrompt(ev, context) ==
    <<"You are AIMI, an AI assistant in the \"">>
    \o (IF ev.guildName = <<>> THEN <<"DM">> ELSE ev.guildName)
    \o <<"\" Discord server. Recent conversation context:\n">>
    \o context

ContextMessages(fetched) ==
    Join(MapSeq(Reverse(fetched), LAMBDA m : <<m.author, ": ", m.content>>), <<"\n">>)

(***************************************************************************)
(* Initial state: the bot is connected and a message arrives.              *)
(***************************************************************************)
NoTurn == [role |-> "none"]
NoCall == [toolName |-> "none"]
NoOutcome == [threw |-> FALSE, result |-> <<>>, ops |-> <<>>]

\* no concurrent event
NoPeer ==
    [pc |-> "none", event |-> [content |-> <<>>], messages |-> <<>>,
     assistantMessage |-> NoTurn, depth |-> 0, toolResults |-> <<>>, request |-> <<>>,
     response |-> <<>>]

\* variant: one array at module level, which every invocation appends to
SharedMessages(turns, others) == others \o turns

\* const messages = [...] in callLLMWithTools: every invocation builds an
\* array of its own, whatever the arrays of other invocations hold
LocalMessages(turns, others) == turns

HandlerIdle ==
    /\ messages = <<>>
    /\ assistantMessage = NoTurn
    /\ depth = 0
    /\ toolResults = <<>>
    /\ request = <<>>
    /\ requestCount = 0
    /\ executed = <<>>
    /\ platformOps = <<>>
    /\ rounds = 0
    /\ synthAt = <<>>
    /\ response = <<>>
    /\ parts = <<>>
    /\ partIdx = 0
    /\ replyCalls = <<>>
    /\ replies = <<>>
    /\ error = <<>>
    /\ failedStep = "none"

Init ==
    /\ guilds = Guilds0
    /\ channels = Channels0
    /\ denied = Denied0
    /\ history = History0
    /\ apiKeySet \in BOOLEAN
    /\ pc = "start"
    /\ event \in InboundMessages
    /\ HandlerIdle
    /\ call = NoCall
    /\ outcome = NoOutcome
    /\ peer = NoPeer

(***************************************************************************)
(* messageCreate handler.                                                  *)
(***************************************************************************)
\* an error reaches the catch block, which replies with the apology
ThrowToHandler(err, step) ==
    /\ error' = err
    /\ failedStep' = step
    /\ replyCalls' = Append(replyCalls, CatchReply(err))
    /\ pc' = "apologizing"

\* callLLMWithTools returned text: the first reply is issued
Answer(text) ==
    LET ps == IF Len(text) <= MAX_LENGTH THEN <<text>> ELSE SplitParts(text)
    IN  /\ response' = text
        /\ parts' = ps
        /\ partIdx' = 1
        /\ replyCalls' = Append(replyCalls, Header(1, Len(ps)) \o ps[1])
        /\ pc' = "replying"

\* variant: a failed completion request is sent again
RequestFailedRetried(err) ==
    IF requestCount < 8
    THEN /\ requestCount' = requestCount + 1
         /\ UNCHANGED <<pc, messages, assistantMessage, depth, toolResults, request,
                        executed, platformOps, rounds, synthAt, replyVars, error,
                        failedStep>>
    ELSE /\ ThrowToHandler(err, "llm")
         /\ UNCHANGED <<loopVars, replies, response, parts, partIdx>>

\* a completion request failed: the error propagates to the handler
RequestFailed(err) ==
    /\ ThrowToHandler(err, "llm")
    /\ UNCHANGED <<loopVars, replies, response, parts, partIdx>>

\* variant: a message of a bot is handled like any other
IgnoresUnaddressedOnly(ev) == ~ev.mentioned /\ ~ev.isDM

\* variant: direct messages are handled only when they mention the bot
IgnoresUnmentioned(ev) == ev.authorBot \/ ~ev.mentioned

\* the two early returns of the handler: the author is a bot, or the bot
\* is neither mentioned nor written to directly
Ignores(ev) == ev.authorBot \/ (~ev.mentioned /\ ~ev.isDM)

\* the handler is invoked: the author and addressing checks, then sendTyping
MessageCreate ==
    /\ pc = "start"
    /\ pc' = IF Ignores(event) THEN "ignored" ELSE "typing"
    /\ UNCHANGED <<worldVars, history, loopVars, replyVars, error, failedStep>>

\* sendTyping settles; on success the context fetch is issued
SendTyping ==
    /\ pc = "typing"
    /\ \E ok \in BOOLEAN :
        IF ok
        THEN /\ pc' = "context"
             /\ UNCHANGED <<error, failedStep>>
        ELSE /\ error' = <<"Missing Access">>
             /\ failedStep' = "typing"
             /\ pc' = "rejected"
    /\ UNCHANGED <<worldVars, history, loopVars, replyVars>>

\* the context fetch settles; callLLMWithTools builds the first two turns
\* and sends the initial completion request
FetchContext ==
    /\ pc = "context"
    /\ \E ok \in BOOLEAN :
        IF ~ok
        THEN /\ ThrowToHandler(<<"Missing Access">>, "context")
             /\ UNCHANGED <<messages, request, requestCount, replies, response, parts,
                            partIdx>>
        ELSE IF ~apiKeySet
        THEN /\ ThrowToHandler(<<"OPENROUTER_API_KEY not configured">>, "config")
             /\ UNCHANGED <<messages, request, requestCount, replies, response, parts,
                            partIdx>>
        ELSE LET cleanContent == Trim(RemoveMentions(event.content))
                 fetched == FetchNewest(history[event.channelId], 5)
                 turns == << [role |-> "system",
                              content |-> SystemPrompt(event, ContextMessages(fetched))],
                             [role |-> "user", content |-> cleanContent] >>
             IN  /\ messages' = LocalMessages(turns, peer.messages)
                 /\ request' = LocalMessages(turns, peer.messages)
                 /\ requestCount' = requestCount + 1
                 /\ pc' = "initial"
                 /\ UNCHANGED <<error, failedStep, replyVars>>
    /\ UNCHANGED <<worldVars, history, assistantMessage, depth, toolResults, executed,
                   platformOps, rounds, synthAt>>

\* the initial completion request settles, the model answering with one
\* of turns
InitialSettles(turns) ==
    /\ pc = "initial"
    /\ \/ \E kind \in FailKinds :
             RequestFailed(IF kind = "unreachable"
                           THEN <<"request to openrouter.ai failed">>
                           ELSE <<"LLM API error: ", EnvelopeMessage>>)
       \/ /\ \E r \in turns : assistantMessage' = r
          /\ depth' = 0
          /\ pc' = "loop"
          /\ UNCHANGED <<messages, toolResults, request, requestCount, executed,
                         platformOps, rounds, synthAt, replyVars, error, failedStep>>
    /\ UNCHANGED <<worldVars, history>>

InitialResponse == InitialSettles(Responses)

(***************************************************************************)
(* executeToolsRecursively.                                                *)
(***************************************************************************)
\* entry of executeToolsRecursively, up to its first await or its return
LoopEntry ==
    /\ pc = "loop"
    /\ LET content == Field(assistantMessage, "content")
       IN
       IF DepthExceeded(depth)
       THEN /\ Answer(DepthExceededText(assistantMessage))
            /\ UNCHANGED <<loopVars, replies, error, failedStep>>
       ELSE IF NoToolCalls(assistantMessage)
       THEN IF LooksLikeToolCall(content) /\ JSONParse(content).ok
            THEN /\ assistantMessage' = syntheticToolCall(JSONParse(content).val)
                 /\ synthAt' = Append(synthAt, depth)
                 /\ UNCHANGED <<pc, messages, depth, toolResults, request, requestCount,
                                executed, platformOps, rounds, replyVars, error,
                                failedStep>>
            ELSE /\ Answer(FinalText(assistantMessage))
                 /\ UNCHANGED <<loopVars, replies, error, failedStep>>
       ELSE /\ pc' = "tools"
            /\ toolResults' = <<>>
            /\ rounds' = rounds + 1
            /\ UNCHANGED <<messages, assistantMessage, depth, request, requestCount,
                           executed, platformOps, synthAt, replyVars, error, failedStep>>
    /\ UNCHANGED <<worldVars, history>>

\* variant: the results are placed before the turn that asked for them
FollowUpMessagesResultsFirst(msgs, am, results) == msgs \o results \o <<am>>

\* messages: [...messages, assistantMessage, ...toolResults] of the
\* follow-up request
FollowUpMessages(msgs, am, results) == msgs \o <<am>> \o results

\* the awaited executeDiscordTool settles with out: the result is pushed,
\* and after the last call the follow-up completion request is sent
ToolSettles(toolCall, out) ==
    /\ history' = out.history
    /\ platformOps' = platformOps \o out.ops
    /\ executed' = Append(executed, [depth |-> depth, id |-> toolCall.id,
                                     name |-> toolCall.function.name])
    /\ IF out.threw
       THEN /\ ThrowToHandler(out.error, "tool")
            /\ UNCHANGED <<toolResults, request, requestCount>>
       ELSE /\ toolResults' = Append(toolResults, ToolResultTurn(toolCall, out.result))
            /\ IF RoundComplete(assistantMessage.tool_calls, toolResults')
               THEN /\ request' = FollowUpMessages(messages, assistantMessage, toolResults')
                    /\ requestCount' = requestCount + 1
                    /\ pc' = "followup"
               ELSE UNCHANGED <<request, requestCount, pc>>
            /\ UNCHANGED <<replyCalls, error, failedStep>>

\* the body of the for loop for one tool call
RunToolCall(toolCall) ==
    ToolSettles(toolCall,
                executeDiscordTool(toolCall.function.name,
                                   ParseArguments(toolCall.function.arguments),
                                   guilds, channels, history, denied))

\* variant: the calls of a round are taken from the last to the first
CallAtFromEnd(calls, done) == calls[Len(calls) - done]

\* for (const toolCall of assistantMessage.tool_calls): the call taken up
\* when done calls have produced their results
CallAt(calls, done) == calls[done + 1]

\* one iteration of the for loop over tool_calls
ExecuteTool ==
    /\ pc = "tools"
    /\ RunToolCall(CallAt(assistantMessage.tool_calls, Len(toolResults)))
    /\ UNCHANGED <<worldVars, messages, assistantMessage, depth, rounds, synthAt,
                   response, parts, partIdx, replies>>

\* the follow-up completion request settles, the model answering with one
\* of turns
FollowUpSettles(turns) ==
    /\ pc = "followup"
    /\ \/ \E kind \in FailKinds :
             RequestFailed(IF kind = "unreachable"
                           THEN <<"request to openrouter.ai failed">>
                           ELSE <<"Cannot read properties of undefined (reading '0')">>)
       \/ /\ \E r \in turns : assistantMessage' = r
          /\ messages' = messages \o <<assistantMessage>> \o toolResults
          /\ depth' = NextDepth(depth)
          /\ pc' = "loop"
          /\ UNCHANGED <<toolResults, request, requestCount, executed, platformOps,
                         rounds, synthAt, replyVars, error, failedStep>>
    /\ UNCHANGED <<worldVars, history>>

FollowUpResponse == FollowUpSettles(Responses)

(***************************************************************************)
(* Delivery of the answer and of the apology.                              *)
(***************************************************************************)
\* a reply of the answer settles; the next part is sent after the pause
ReplySettles ==
    /\ pc = "replying"
    /\ \E ok \in BOOLEAN :
        IF ok
        THEN /\ replies' = Append(replies, replyCalls[Len(replyCalls)])
             /\ IF partIdx < Len(parts)
                THEN /\ replyCalls' = Append(replyCalls,
                                             Header(partIdx + 1, Len(parts))
                                             \o parts[partIdx + 1])
                     /\ partIdx' = partIdx + 1
                     /\ pc' = "replying"
                ELSE /\ pc' = "done"
                     /\ UNCHANGED <<replyCalls, partIdx>>
             /\ UNCHANGED <<error, failedStep>>
        ELSE /\ ThrowToHandler(<<"Unknown Message">>, "reply")
             /\ UNCHANGED <<replies, partIdx>>
    /\ UNCHANGED <<worldVars, history, loopVars, response, parts>>

\* the reply of the apology settles; its rejection leaves the handler
ApologySettles ==
    /\ pc = "apologizing"
    /\ \E ok \in BOOLEAN :
        IF ok
        THEN /\ replies' = Append(replies, replyCalls[Len(replyCalls)])
             /\ pc' = "done"
        ELSE /\ pc' = "rejected"
             /\ UNCHANGED replies
    /\ UNCHANGED <<worldVars, history, loopVars, response, parts, partIdx, replyCalls,
                   error, failedStep>>

Next ==
    \/ MessageCreate
    \/ SendTyping
    \/ FetchContext
    \/ InitialResponse
    \/ LoopEntry
    \/ ExecuteTool
    \/ FollowUpResponse
    \/ ReplySettles
    \/ ApologySettles

Spec == Init /\ [][Next]_vars

Terminated == pc \in {"ignored", "done", "rejected"}

(***************************************************************************)
(* A single call of executeDiscordTool, on any of the worlds, names and    *)
(* argument objects below.                                                 *)
(***************************************************************************)
KnownTools == {"read_messages", "list_servers", "send_message"}

ToolNames == KnownTools \cup {"delete_channel", "read-messages", "constructor", ""}

ArgObjects ==
    { EmptyObject,
      [channel |-> "general"],
      [channel |-> "general", message |-> "hi"],
      [channel |-> "general", server |-> ""],
      [channel |-> "general", server |-> "g1"],
      [channel |-> "general", server |-> "g1", limit |-> 7],
      [channel |-> "general", server |-> "g1", limit |-> 0],
      [channel |-> "general", server |-> "g1", limit |-> -5],
      [channel |-> "general", server |-> "g1", limit |-> 500],
      [channel |-> "#General", server |-> "Home"],
      [channel |-> "Dup", server |-> "home"],
      [channel |-> "voice", server |-> "HOME"],
      [channel |-> "#general", message |-> "hi", server |-> "g1"],
      [channel |-> "general", message |-> "", server |-> "g1"],
      [channel |-> "locked", message |-> "hi", server |-> "g1"],
      [channel |-> "dup", server |-> "g1"],
      [channel |-> "nowhere", server |-> "g1"],
      [channel |-> "general", server |-> "nope"],
      [channel |-> "c1", server |-> "g1"],
      [channel |-> "c5", server |-> "g1"],
      [channel |-> "c2", server |-> "g1"],
      [channel_name |-> "general", server_name |-> "g1", max_messages |-> 200] }

GuildWorlds == { <<>>, <<Guilds0[1]>>, Guilds0 }

ChannelsOf(gs) ==
    SelectSeq(Channels0, LAMBDA c : \E i \in 1..Len(gs) : gs[i].id = c.guildId)

InitExec ==
    /\ guilds \in GuildWorlds
    /\ channels = ChannelsOf(guilds)
    /\ denied \in {{}, Denied0}
    /\ history = History0
    /\ apiKeySet = TRUE
    /\ pc = "call"
    /\ event \in {e \in InboundMessages : e.isDM}
    /\ HandlerIdle
    /\ call \in [toolName : ToolNames, args : ArgObjects]
    /\ outcome = NoOutcome
    /\ peer = NoPeer

CallSettles(out) ==
    /\ outcome' = [threw |-> out.threw, result |-> out.result, ops |-> out.ops]
    /\ history' = out.history
    /\ platformOps' = out.ops

ExecuteCall ==
    /\ pc = "call"
    /\ CallSettles(executeDiscordTool(call.toolName, call.args, guilds, channels,
                                      history, denied))
    /\ pc' = "called"
    /\ UNCHANGED <<guilds, channels, denied, apiKeySet, event, call, peer, messages,
                   assistantMessage, depth, toolResults, request, requestCount, executed,
                   rounds, synthAt, replyVars, error, failedStep>>

NextExec == ExecuteCall

SpecExec == InitExec /\ [][NextExec]_vars

(***************************************************************************)
(* A single call of normalizeToolArgs, on any operation name and any       *)
(* argument map over the keys below.  Every key holds a value of its own.  *)
(***************************************************************************)
ArgValue ==
    [channel |-> "general", channel_name |-> "dup", server |-> "g1",
     server_name |-> "Home", limit |-> "10", message_limit |-> "20",
     max_messages |-> "200", message |-> "hi", content |-> "hello", text |-> "hey",
     start_date |-> "today"]

NormArgObjects == {[k \in S |-> ArgValue[k]] : S \in SUBSET DOMAIN ArgValue}

NormToolNames == KnownTools \cup {"delete_channel"}

InitNorm ==
    /\ guilds = Guilds0
    /\ channels = Channels0
    /\ denied = Denied0
    /\ history = History0
    /\ apiKeySet = TRUE
    /\ pc = "call"
    /\ event \in {e \in InboundMessages : e.isDM}
    /\ HandlerIdle
    /\ call \in [toolName : NormToolNames, args : NormArgObjects]
    /\ outcome = NoOutcome
    /\ peer = NoPeer

\* normalizeToolArgs returns res (or throws) on the caller's object input
NormalizeSettles(input, res) ==
    /\ outcome' = [threw |-> ~res.ok, input |-> input,
                   normalized |-> IF res.ok THEN res.val ELSE EmptyObject]
    /\ call' = [call EXCEPT !.args = IF res.ok THEN CallerArgs(input, res.val)
                                      ELSE input]

NormalizeCall ==
    /\ pc = "call"
    /\ NormalizeSettles(call.args, normalizeToolArgs(call.toolName, call.args))
    /\ pc' = "called"
    /\ UNCHANGED <<guilds, channels, denied, history, apiKeySet, event, peer, loopVars,
                   replyVars, error, failedStep>>

NextNorm == NormalizeCall

SpecNorm == InitNorm /\ [][NextNorm]_vars

(***************************************************************************)
(* The handler with a model that never returns structured tool calls: it   *)
(* answers in text or writes a tool call as JSON text.  The first turn is  *)
(* any of SynthTurns, the later turns any of LaterTurns.                   *)
(***************************************************************************)
SynthTurns ==
    { Assistant(TxtJsonRead, <<>>, <<>>),
      Assistant(TxtJsonReadSp, TxtReason, <<>>),
      Assistant(ArgsSendOk, <<>>, <<>>),
      Assistant(TxtJsonText, <<>>, <<>>),
      Assistant(TxtJsonEmptyMsg, <<>>, <<>>),
      Assistant(ArgsSyn, <<>>, <<>>),
      Assistant(TxtJsonBad, TxtReason, <<>>),
      Assistant(ArgsEmptyObj, <<>>, <<>>),
      Assistant(TxtHi, <<>>, <<>>),
      Assistant(TxtPreambleHi, TxtReason, <<>>),
      Assistant(TxtFinalLower, TxtReason, <<>>),
      Assistant(TxtLabelStars, <<>>, <<>>),
      Assistant(TxtBlank, TxtReason, <<>>),
      Assistant(TxtBlank, <<>>, <<>>),
      Assistant(<<>>, TxtBlank, <<>>),
      Assistant(<<>>, <<>>, <<>>) }

LaterTurns ==
    { Assistant(TxtHi, <<>>, <<>>),
      Assistant(TxtJsonText, <<>>, <<>>) }

InitialSynth == InitialSettles(SynthTurns)

FollowUpSynth == FollowUpSettles(LaterTurns)

NextSynth ==
    \/ MessageCreate
    \/ SendTyping
    \/ FetchContext
    \/ InitialSynth
    \/ LoopEntry
    \/ ExecuteTool
    \/ FollowUpSynth
    \/ ReplySettles
    \/ ApologySettles

SpecSynth == Init /\ [][NextSynth]_vars

(***************************************************************************)
(* The handler with a model that answers at once, with texts around the    *)
(* length limit and with every kind of break point.  Handlers of other     *)
(* events deliver their replies to the same channel in between.            *)
(***************************************************************************)
TxtAtLimit == Repeat("a", MAX_LENGTH)
TxtOverLimit == Repeat("a", MAX_LENGTH + 1)
TxtThreeParts == Repeat("a", 2 * MAX_LENGTH + 100)
TxtParaEarly == Repeat("a", 500) \o <<"\n", "\n">> \o Repeat("b", 1500)
TxtParaAtHalf == Repeat("a", 975) \o <<"\n", "\n">> \o Repeat("b", 1000)
TxtParaPastHalf == Repeat("a", 976) \o <<"\n", "\n">> \o Repeat("b", 1000)
TxtParaAtLimit == Repeat("a", MAX_LENGTH) \o <<"\n", "\n", "b">>
TxtSentence == Repeat("a", 1500) \o <<".", " ">> \o Repeat("b", 600)
TxtSentenceAtBar == Repeat("a", 1365) \o <<".", " ">> \o Repeat("b", 600)
TxtSentenceAtLimit == Repeat("a", MAX_LENGTH) \o <<".", " ", "b">>
TxtLine == Repeat("a", 1400) \o <<"\n">> \o Repeat("b", 600)
TxtBlanksAtCut == Repeat("a", MAX_LENGTH) \o <<" ", " ", " ">> \o Repeat("b", 10)
TxtLeadingBlank == <<" ">> \o Repeat("a", MAX_LENGTH)
TxtTrailingBlank == Repeat("a", MAX_LENGTH) \o <<" ">>
TxtBlankChunk == Repeat(" ", 980) \o <<"\n", "\n">> \o Repeat("a", 1000)
TxtParaBeforeSentence ==
    Repeat("a", 1000) \o <<"\n", "\n">> \o Repeat("b", 700) \o <<".", " ">>
    \o Repeat("c", 400)
TxtSentenceBeforeLine ==
    Repeat("a", 1400) \o <<".", " ">> \o Repeat("b", 400) \o <<"\n">> \o Repeat("c", 400)
TxtEarlyParaLateSentence ==
    Repeat("a", 600) \o <<"\n", "\n">> \o Repeat("b", 900) \o <<".", " ">>
    \o Repeat("c", 600)
TxtTwoParas ==
    Repeat("a", 1000) \o <<"\n", "\n">> \o Repeat("b", 500) \o <<"\n", "\n">>
    \o Repeat("c", 600)
TxtEarlyLine == Repeat("a", 1365) \o <<"\n">> \o Repeat("b", 700)

SplitTurns ==
    {Assistant(t, <<>>, <<>>) :
        t \in {TxtHi, TxtAtLimit, TxtOverLimit, TxtThreeParts, TxtLong, TxtParaEarly,
               TxtParaAtHalf, TxtParaPastHalf, TxtParaAtLimit, TxtSentence,
               TxtSentenceAtBar, TxtSentenceAtLimit, TxtLine, TxtBlanksAtCut,
               TxtParaBeforeSentence, TxtSentenceBeforeLine, TxtEarlyParaLateSentence,
               TxtTwoParas, TxtEarlyLine}}
    \cup {Assistant(<<>>, t, <<>>) :
             t \in {TxtLeadingBlank, TxtTrailingBlank, TxtBlankChunk}}

InitialSplit == InitialSettles(SplitTurns)

\* the handler of another event delivers a reply to the channel
OtherHandlerReplies ==
    /\ pc \notin {"ignored", "done", "rejected"}
    /\ Len(history[event.channelId]) < Len(History0[event.channelId]) + MaxOtherReplies
    /\ history' = [history EXCEPT ![event.channelId] =
                      Append(@, [id |-> "m" \o ToString(Len(@) + 1), author |-> BotTag,
                                 content |-> "other"])]
    /\ UNCHANGED <<worldVars, pc, loopVars, replyVars, error, failedStep>>

NextSplit ==
    \/ MessageCreate
    \/ SendTyping
    \/ FetchContext
    \/ InitialSplit
    \/ LoopEntry
    \/ ReplySettles
    \/ ApologySettles
    \/ OtherHandlerReplies

SpecSplit == Init /\ [][NextSplit]_vars

(***************************************************************************)
(* Properties.                                                             *)
(***************************************************************************)
\* callLLMWithTools has returned its text to the handler
LoopReturned == parts # <<>>

\* every assistant turn of the run carried a structured tool call
ModelAlwaysCalledTools ==
    /\ synthAt = <<>>
    /\ Field(assistantMessage, "tool_calls") # <<>>
    /\ \A i \in 1..Len(messages) :
          messages[i].role = "assistant" => messages[i].tool_calls # <<>>

RECURSIVE CallsIn(_)
\* the tool calls of the assistant turns of a turn sequence, in order
CallsIn(turns) ==
    IF turns = <<>> THEN <<>>
    ELSE Field(Head(turns), "tool_calls") \o CallsIn(Tail(turns))

ExecutedIds == [i \in 1..Len(executed) |-> executed[i].id]

IdsOf(calls) == [i \in 1..Len(calls) |-> calls[i].id]

\* C1: when every assistant turn carries a tool call, the loop runs exactly
\* five tool-executing rounds (depths 0 to 4) and six completion requests,
\* does not execute the calls of the turn it sees at depth 5, and returns a
\* non-empty text.
C1_FiveRoundsThenText ==
    (LoopReturned /\ ModelAlwaysCalledTools) =>
        /\ rounds = 5
        /\ requestCount = 6
        /\ depth = 5
        /\ {executed[i].depth : i \in 1..Len(executed)} = 0..4
        /\ ExecutedIds = IdsOf(CallsIn(messages))
        /\ response # <<>>

C1_Witness ==
    /\ LoopReturned
    /\ ModelAlwaysCalledTools
    /\ rounds = 5
    /\ response = NoticeDepth

IsSynthetic(turn) == "role" \notin DOMAIN turn

\* A measure of the steps a run still has to make: it bounds the length
\* of every run when each step decreases it.
MaxCalls == SetMax({Len(r.tool_calls) : r \in Responses})
MaxParts ==
    SetMax({Len(SplitParts(t)) :
               t \in {FinalText(r) : r \in Responses}
                     \cup {DepthExceededText(r) : r \in Responses}})
RoundBudget == MaxCalls + 3
AnswerBudget == MaxParts + 2

Measure ==
    LET base == (MAX_DEPTH - depth) * RoundBudget + AnswerBudget
    IN  CASE pc = "start" -> base + RoundBudget + 4
          [] pc = "typing" -> base + RoundBudget + 3
          [] pc = "context" -> base + RoundBudget + 2
          [] pc = "initial" -> base + RoundBudget + 1
          [] pc = "loop" -> IF IsSynthetic(assistantMessage)
                            THEN base + RoundBudget - 1 ELSE base + RoundBudget
          [] pc = "tools" -> base + 1 + Len(assistantMessage.tool_calls) - Len(toolResults)
          [] pc = "followup" -> base + 1
          [] pc = "replying" -> Len(parts) - partIdx + 2
          [] pc = "apologizing" -> 1
          [] OTHER -> 0

\* the handler is at a position whose step can be taken
CanStep ==
    \/ pc \in {"start", "typing", "context", "loop", "apologizing"}
    \/ pc \in {"initial", "followup"} /\ Responses # {} /\ FailKinds # {}
    \/ pc = "tools" /\ Len(toolResults) < Len(assistantMessage.tool_calls)
    \/ pc = "replying" /\ partIdx \in 1..Len(parts) /\ replyCalls # <<>>

\* C2: every run of the handler ends, whatever the model returns: while it
\* has not ended its next step can be taken, and every step decreases a
\* measure that is never negative.  A run has at most five tool-executing rounds and at
\* most six completion requests; a synthesized tool call keeps the depth,
\* is executed by the next step as a round, and is never synthesized twice
\* at one depth.
C2_LoopTerminatesWithinBounds ==
    /\ [](Measure >= 0)
    /\ [](~Terminated => CanStep)
    /\ [][Measure' < Measure]_vars
    /\ [](rounds <= 5 /\ requestCount <= 6 /\ requestCount <= rounds + 1)
    /\ [](\A i, j \in 1..Len(synthAt) : i < j => synthAt[i] < synthAt[j])
    /\ [][(synthAt' # synthAt) =>
             /\ depth' = depth
             /\ pc' = "loop"
             /\ IsSynthetic(assistantMessage')
             /\ Len(assistantMessage'.tool_calls) = 1]_vars
    /\ [][(pc = "loop" /\ IsSynthetic(assistantMessage)) =>
             /\ pc' = "tools"
             /\ rounds' = rounds + 1
             /\ depth' = depth]_vars

C2_Witness ==
    /\ pc = "done"
    /\ rounds = 5
    /\ requestCount = 6
    /\ Len(synthAt) = 5

\* C3: at depth >= MAX_DEPTH the loop returns the content if non-empty,
\* else the reasoning if non-empty, else the depth-exceeded notice.
C3_ContentPreferredAtDepthLimit ==
    (LoopReturned /\ depth >= 5) =>
        response = IF Field(assistantMessage, "content") # <<>>
                   THEN Field(assistantMessage, "content")
                   ELSE IF Field(assistantMessage, "reasoning") # <<>>
                   THEN Field(assistantMessage, "reasoning")
                   ELSE NoticeDepth

Count(s, x) == Cardinality({i \in 1..Len(s) : s[i] = x})

ResultIds == [i \in 1..Len(toolResults) |-> toolResults[i].tool_call_id]

\* C4: in a round the i-th result carries the id of the i-th call; when the
\* round is complete the result ids are the call ids, in order and with the
\* same multiplicities.
C4_ResultsMatchCalls ==
    pc \in {"tools", "followup"} =>
        LET ids == IdsOf(assistantMessage.tool_calls)
        IN  /\ Len(toolResults) <= Len(ids)
            /\ \A i \in 1..Len(toolResults) :
                  /\ toolResults[i].tool_call_id = ids[i]
                  /\ toolResults[i].role = "tool"
            /\ pc = "followup" =>
                  /\ ResultIds = ids
                  /\ \A i \in 1..Len(ids) : Count(ResultIds, ids[i]) = Count(ids, ids[i])
                  /\ \A i \in 1..Len(ResultIds) : Count(ids, ResultIds[i]) > 0

C4_Witness ==
    /\ pc = "followup"
    /\ Len(toolResults) = 4
    /\ Count(ResultIds, "call_1") = 2

\* the index of the last turn of a request that carries tool calls
LastCallingTurn(req) ==
    SetMax({0} \cup {i \in 1..Len(req) : Field(req[i], "tool_calls") # <<>>})

\* C5: every follow-up request ends with the assistant turn of its round
\* followed by one result for each of that turn's tool calls, and it is
\* sent only when each of them has been executed.
C5_FollowUpAfterAllResults ==
    requestCount >= 2 =>
        LET k == LastCallingTurn(request)
            calls == request[k].tool_calls
        IN  /\ k > 0
            /\ Len(request) = k + Len(calls)
            /\ \A j \in 1..Len(calls) :
                  /\ request[k + j].role = "tool"
                  /\ request[k + j].tool_call_id = calls[j].id
            /\ pc = "followup" => Len(executed) = Len(CallsIn(request))

C5_Witness ==
    /\ pc = "followup"
    /\ requestCount = 3
    /\ Len(assistantMessage.tool_calls) = 3

\* C6: a failed completion request, initial or follow-up, throws to the
\* handler's catch block and is not sent again; after it no completion
\* request is sent and no tool is executed.
C6_RequestFailureIsFinal ==
    /\ [][(pc \in {"initial", "followup"} /\ pc' # "loop") =>
             /\ pc' = "apologizing"
             /\ failedStep' = "llm"
             /\ error' # <<>>
             /\ requestCount' = requestCount]_vars
    /\ [][failedStep = "llm" =>
             /\ requestCount' = requestCount
             /\ executed' = executed
             /\ platformOps' = platformOps
             /\ rounds' = rounds
             /\ pc' \in {"done", "rejected"}]_vars

C6_Witness ==
    /\ failedStep = "llm"
    /\ pc = "done"
    /\ requestCount = 3
    /\ Len(executed) > 0

\* C7: when the loop fails on a completion request the handler replies
\* once, with the fixed apology whatever the error was, and never with
\* answer text; the user receives that one reply once it is delivered.
C7_OnlyTheApology ==
    failedStep = "llm" =>
        /\ replyCalls = <<ApologyText>>
        /\ pc = "done" => replies = <<ApologyText>>
        /\ pc # "done" => replies = <<>>

C7_Witness ==
    /\ failedStep = "llm"
    /\ pc = "done"
    /\ error = <<"LLM API error: ", EnvelopeMessage>>
    /\ replies = <<ApologyText>>

\* C8: whichever step of a qualifying event fails (typing indicator,
\* context fetch, completion request, delivery of an answer chunk), the
\* user gets exactly one reply, the apology, and nothing else.
C8_AnyFailureOneApology ==
    (failedStep \in {"typing", "context", "llm", "reply"} /\ pc \in {"done", "rejected"})
        => replies = <<ApologyText>>

\* C9: for a name other than read_messages, list_servers and send_message
\* executeDiscordTool returns a string that starts with the failure prefix,
\* does not throw and performs no platform operation.
C9_UnknownToolIsAnErrorResult ==
    (pc = "called" /\ call.toolName \notin KnownTools) =>
        /\ ~outcome.threw
        /\ HasErrorPrefix(outcome.result)
        /\ outcome.ops = <<>>
        /\ history = History0

C9_Witness ==
    /\ pc = "called"
    /\ call.toolName = "constructor"
    /\ call.args # EmptyObject
    /\ outcome.result = <<ErrorPrefix, "validParams[toolName].includes is not a function">>

\* C10: a tool call that fails yields a result turn with the error text and
\* the round goes on: every step of the for loop appends one result, no
\* error of a tool reaches the handler, and the follow-up request is sent
\* with all the results after the last call.
C10_ToolFailureStaysInTheRound ==
    /\ [](failedStep # "tool")
    /\ [][pc = "tools" =>
             /\ pc' \in {"tools", "followup"}
             /\ Len(toolResults') = Len(toolResults) + 1
             /\ Len(executed') = Len(executed) + 1
             /\ SubSeq(toolResults', 1, Len(toolResults)) = toolResults
             /\ (pc' = "followup") = (Len(toolResults') = Len(assistantMessage.tool_calls))
             /\ pc' = "followup" =>
                   /\ requestCount' = requestCount + 1
                   /\ request' = messages \o <<assistantMessage>> \o toolResults']_vars

C10_Witness ==
    /\ pc = "followup"
    /\ Len(toolResults) = 2
    /\ toolResults[1].content = <<ErrorPrefix, "Missing Access">>
    /\ ~HasErrorPrefix(toolResults[2].content)
    /\ Len(request) = Len(messages) + 3

\* the payload is empty, or JSON.parse throws on it
Undecodable(arguments) ==
    \/ ~Truthy(arguments)
    \/ Trim(arguments) = <<>>
    \/ ~JSONParse(arguments).ok

\* the result turn of toolCall when the executor is given the empty map
EmptyMapResult(toolCall) ==
    [tool_call_id |-> toolCall.id, role |-> "tool",
     content |-> executeDiscordTool(toolCall.function.name, EmptyObject, guilds,
                                    channels, history, denied).result]

NextCall == assistantMessage.tool_calls[Len(toolResults) + 1]

\* C11: a tool call whose argument payload is empty or is not valid JSON is
\* executed with the empty argument map: the executor is invoked, a result
\* with the call's id is pushed, the round goes on with the next call (or
\* with the follow-up request after the last one) and nothing is thrown.
C11_DecodeFailureGivesEmptyMap ==
    [][(pc = "tools" /\ Undecodable(NextCall.function.arguments)) =>
          /\ toolResults' = Append(toolResults, EmptyMapResult(NextCall))
          /\ executed' = Append(executed, [depth |-> depth, id |-> NextCall.id,
                                           name |-> NextCall.function.name])
          /\ pc' = IF Len(toolResults') = Len(assistantMessage.tool_calls)
                   THEN "followup" ELSE "tools"
          /\ failedStep' = "none"
          /\ error' = <<>>]_vars

C11_Witness ==
    /\ pc = "followup"
    /\ Len(toolResults) = 4
    /\ assistantMessage.tool_calls[3].function.arguments = TxtJsonBad
    /\ toolResults[3] = [tool_call_id |-> "call_1", role |-> "tool",
                         content |-> <<ErrorPrefix, "Bot is in ", "2",
                                       " servers. Please specify server name or ID.">>]
    /\ assistantMessage.tool_calls[4].function.arguments = ArgsEmpty
    /\ ~HasErrorPrefix(toolResults[4].content)

\* the keys that carry a message text: message and its synonyms
MessageLikeKeys == {"message", "content", "text"}

SynthesizedCall == assistantMessage.tool_calls[1]

\* C12: JSON content with a "channel" key and no tool call becomes exactly
\* one synthesized call, at the same depth, whose arguments are the object:
\* send_message if the object has a message-like key (message, content or
\* text, whatever its value), read_messages otherwise; the call is executed
\* and followed by a follow-up request; content that is not parseable JSON
\* is answered as text.
C12_SynthesisByShape ==
    /\ [][synthAt' # synthAt =>
            /\ Len(assistantMessage'.tool_calls) = 1
            /\ JSONParse(assistantMessage'.tool_calls[1].function.arguments)
                   = JSONParse(assistantMessage.content)
            /\ assistantMessage'.tool_calls[1].function.name =
                   IF DOMAIN JSONParse(assistantMessage.content).val
                          \cap MessageLikeKeys # {}
                   THEN "send_message" ELSE "read_messages"
            /\ depth' = depth
            /\ pc' = "loop"]_vars
    /\ [][(pc = "loop" /\ ~DepthExceeded(depth)
              /\ Field(assistantMessage, "tool_calls") = <<>>
              /\ ~JSONParse(Field(assistantMessage, "content")).ok) =>
            /\ synthAt' = synthAt
            /\ pc' = "replying"
            /\ response' = FinalText(assistantMessage)]_vars
    /\ [][(pc = "tools" /\ IsSynthetic(assistantMessage)) =>
            /\ pc' = "followup"
            /\ Len(executed') = Len(executed) + 1
            /\ requestCount' = requestCount + 1]_vars

\* the content of the last turn, preamble stripped and trimmed
CleanedContent == Trim(StripPreamble(Field(assistantMessage, "content")))

\* C13: below the depth limit, a turn without tool calls that is not turned
\* into a synthetic call is answered with its content, preamble stripped
\* and trimmed, if that is non-empty, otherwise with its reasoning text if
\* non-empty, otherwise with the fixed acknowledgement; the answer is never
\* the empty string.
C13_AnswerFallbackChain ==
    (LoopReturned /\ depth < MAX_DEPTH) =>
        /\ response # <<>>
        /\ CleanedContent # <<>> => response = CleanedContent
        /\ (CleanedContent = <<>> /\ Field(assistantMessage, "reasoning") # <<>>) =>
               response = Field(assistantMessage, "reasoning")
        /\ (CleanedContent = <<>> /\ Field(assistantMessage, "reasoning") = <<>>) =>
               response = AckText

C13_Witness ==
    /\ LoopReturned
    /\ depth = 0
    /\ assistantMessage.content = TxtPreambleHi
    /\ assistantMessage.reasoning = TxtReason
    /\ response = TxtHi

\* the synonym table of an operation, as a set of <<synonym, canonical>>
SynonymsOf(toolName) ==
    {mappings[toolName][i] : i \in 1..Len(mappings[toolName])}

\* the synonyms of canonical that the table lists before syn
ListedBefore(toolName, syn) ==
    {mappings[toolName][i][1] :
        i \in {j \in 1..Len(mappings[toolName]) :
                  /\ mappings[toolName][j][2] =
                         (CHOOSE p \in SynonymsOf(toolName) : p[1] = syn)[2]
                  /\ \E k \in (j + 1)..Len(mappings[toolName]) :
                        mappings[toolName][k][1] = syn}}

Normalized14 == pc = "called" /\ call.toolName \in DOMAIN mappings

\* C14 as stated: every synonym that is present while its canonical key is
\* absent ends up as the value of the canonical key; a canonical key that is
\* present keeps its value and its synonyms are discarded.
C14_EverySynonymRenamed ==
    Normalized14 =>
        \A p \in SynonymsOf(call.toolName) :
            /\ (p[1] \in DOMAIN outcome.input /\ p[2] \notin DOMAIN outcome.input) =>
                   /\ p[2] \in DOMAIN outcome.normalized
                   /\ outcome.normalized[p[2]] = outcome.input[p[1]]
            /\ p[2] \in DOMAIN outcome.input =>
                   /\ outcome.normalized[p[2]] = outcome.input[p[2]]
                   /\ p[1] \notin DOMAIN outcome.normalized

\* C14, amended: a synonym that is present while its canonical key is absent
\* ends up as the value of the canonical key unless a synonym of the same
\* canonical key listed before it in the table is present too (then the
\* earlier one does and the later one is discarded); a canonical key that is
\* present keeps its value and its synonyms are discarded.
C14_FirstSynonymRenamed ==
    Normalized14 =>
        \A p \in SynonymsOf(call.toolName) :
            /\ (/\ p[1] \in DOMAIN outcome.input
                /\ p[2] \notin DOMAIN outcome.input
                /\ ListedBefore(call.toolName, p[1]) \cap DOMAIN outcome.input = {}) =>
                   /\ p[2] \in DOMAIN outcome.normalized
                   /\ outcome.normalized[p[2]] = outcome.input[p[1]]
            /\ p[2] \in DOMAIN outcome.input =>
                   /\ outcome.normalized[p[2]] = outcome.input[p[2]]
                   /\ p[1] \notin DOMAIN outcome.normalized
            /\ p[1] \notin DOMAIN outcome.normalized
            /\ ~outcome.threw

C14_Witness ==
    /\ pc = "called"
    /\ call.toolName = "send_message"
    /\ DOMAIN outcome.input = {"channel_name", "content", "text", "server"}
    /\ outcome.normalized = [channel |-> "dup", message |-> "hello", server |-> "g1"]

\* C15: for the three known operations the keys of the result are canonical
\* parameters of the operation, no synonym survives, the call does not fail
\* and the caller's map is as it was.
C15_OnlyCanonicalKeys ==
    (pc = "called" /\ call.toolName \in KnownTools) =>
        /\ ~outcome.threw
        /\ DOMAIN outcome.normalized \subseteq validParams[call.toolName]
        /\ DOMAIN outcome.normalized \subseteq
               CASE call.toolName = "read_messages" -> {"channel", "server", "limit"}
                 [] call.toolName = "send_message" -> {"channel", "server", "message"}
                 [] call.toolName = "list_servers" -> {}
        /\ \A k \in DOMAIN outcome.normalized :
               k \notin {"channel_name", "server_name", "message_limit", "max_messages",
                         "content", "text"}
        /\ call.args = outcome.input

C15_Witness ==
    /\ pc = "called"
    /\ call.toolName = "read_messages"
    /\ DOMAIN outcome.input = {"channel", "max_messages", "start_date", "message"}
    /\ outcome.normalized = [channel |-> "general", limit |-> "200"]
    /\ call.args = outcome.input

\* C16: an answer of at most MAX_LENGTH characters is delivered as exactly
\* one reply, whose text is the answer, without a part marker.
C16_ShortAnswerOneReply ==
    (LoopReturned /\ Len(response) <= MAX_LENGTH) =>
        /\ parts = <<response>>
        /\ replyCalls[1] = response
        /\ failedStep = "none" => Len(replyCalls) = 1
        /\ (pc = "done" /\ failedStep = "none") => replies = <<response>>

C16_Witness ==
    /\ pc = "done"
    /\ failedStep = "none"
    /\ Len(response) = 1950
    /\ replies = <<response>>

\* C17: every chunk of a split answer has at most MAX_LENGTH characters.
C17_ChunksWithinLimit ==
    (LoopReturned /\ Len(response) > MAX_LENGTH) =>
        \A i \in 1..Len(parts) : Len(parts[i]) <= MAX_LENGTH

\* the index of the last character before the first non-whitespace
\* character after position pos (Len(t) if there is none)
SkipWhitespace(t, pos) ==
    IF \A q \in (pos + 1)..Len(t) : IsWhitespace(t[q]) THEN Len(t)
    ELSE (CHOOSE q \in (pos + 1)..Len(t) :
             /\ ~IsWhitespace(t[q])
             /\ \A r \in (pos + 1)..(q - 1) : IsWhitespace(t[r])) - 1

\* the chunks from the i-th on are, in order, pieces of t after position
\* pos, separated and followed by whitespace only
RECURSIVE CoversFrom(_, _, _, _)
CoversFrom(t, chunks, pos, i) ==
    IF i > Len(chunks) THEN SkipWhitespace(t, pos) = Len(t)
    ELSE /\ MatchAt(t, chunks[i], SkipWhitespace(t, pos))
         /\ CoversFrom(t, chunks, SkipWhitespace(t, pos) + Len(chunks[i]), i + 1)

\* C18: the chunks of a split answer are trimmed, contiguous pieces of the
\* answer, in order; only whitespace at the chunk boundaries is left out.
C18_ChunksCoverTheAnswer ==
    (LoopReturned /\ Len(response) > MAX_LENGTH) =>
        /\ \A i \in 1..Len(parts) : Trim(parts[i]) = parts[i]
        /\ CoversFrom(response, parts, 0, 1)

C18_Witness ==
    /\ LoopReturned
    /\ response = TxtBlanksAtCut
    /\ parts = <<Repeat("a", 1950), Repeat("b", 10)>>

\* the marker of part i of k, as the user sees it
Marker(i, k) ==
    <<"*", "*", "[", "P", "a", "r", "t", " ">> \o Digits(i) \o <<"/">> \o Digits(k)
    \o <<"]", "*", "*", "\n", "\n">>

\* C19: the i-th reply of an answer split into k > 1 chunks starts with the
\* marker of part i of k and carries the i-th chunk; replies are delivered
\* in increasing i, reply i + 1 being issued only after reply i was
\* delivered, whatever other handlers deliver in between.
C19_PartsInOrder ==
    /\ [](LoopReturned =>
            /\ failedStep = "none" => Len(replyCalls) <= Len(replies) + 1
            /\ (failedStep = "none" /\ Len(parts) > 1) =>
                  /\ Len(replyCalls) = partIdx
                  /\ \A i \in 1..Len(replyCalls) :
                        replyCalls[i] = Marker(i, Len(parts)) \o parts[i]
                  /\ \A i \in 1..Len(replies) : replies[i] = replyCalls[i])
    /\ [][(replies' # replies /\ failedStep = "none") =>
            replies' = Append(replies, replyCalls[Len(replies) + 1])]_vars
    /\ [][history' # history => UNCHANGED <<replyVars, pc>>]_vars

C19_Witness ==
    /\ pc = "done"
    /\ failedStep = "none"
    /\ Len(replies) = 3
    /\ SubSeq(replies[2], 1, 16) =
           <<"*", "*", "[", "P", "a", "r", "t", " ", "2", "/", "3", "]", "*", "*",
             "\n", "\n">>
    /\ Len(history[event.channelId]) = Len(History0[event.channelId]) + MaxOtherReplies

\* the call names no server: the key is absent or holds the empty string
ServerOmitted ==
    /\ call.toolName \in {"read_messages", "send_message"}
    /\ "server_name" \notin DOMAIN call.args
    /\ Falsy(Arg(call.args, "server"))

SpecifyServer ==
    <<"Bot is in ", ToString(Len(guilds)), " servers. Please specify server name or ID.">>

\* C20: without a server identifier findGuild yields the only server when
\* the bot is in exactly one; when it is in none or in several the call
\* fails with the 'specify server' error and no fetch or send is made.
C20_OmittedServer ==
    (pc = "called" /\ ServerOmitted) =>
        IF Len(guilds) = 1
        THEN /\ findGuild(guilds, Arg(call.args, "server")) = Ok(guilds[1])
             /\ outcome.result # <<ErrorPrefix>> \o SpecifyServer
             /\ ~HasErrorPrefix(outcome.result) => outcome.result[4] = guilds[1].name
        ELSE /\ findGuild(guilds, Arg(call.args, "server")) = Err(SpecifyServer)
             /\ ~outcome.threw
             /\ outcome.result = <<ErrorPrefix>> \o SpecifyServer
             /\ outcome.ops = <<>>
             /\ history = History0

C20_Witness ==
    /\ pc = "called"
    /\ ServerOmitted
    /\ Len(guilds) = 1
    /\ call.toolName = "send_message"
    /\ outcome.result = <<"Message sent successfully to #", "general", " in ", "Home",
                          ". Message ID: ", "m2">>
    /\ Len(outcome.ops) = 1

(***************************************************************************)
(* Resolution of a channel name that exists in two servers.                *)
(***************************************************************************)
\* the text channels named name, over all servers of the client
ChannelsNamed(name) ==
    SelectSeq(channels, LAMBDA c : c.isText /\ ToLowerCase(c.name) = name)

\* the call names channel "general" and no server
GeneralWithoutServer ==
    /\ call.toolName \in {"read_messages", "send_message"}
    /\ "channel" \in DOMAIN call.args
    /\ call.args["channel"] = "general"
    /\ "server" \notin DOMAIN call.args

\* the text is a multiple-matches error that names every candidate
NamesEvery(result, candidates) ==
    /\ HasErrorPrefix(result)
    /\ \E i \in 1..Len(result) : result[i] = "Multiple channels found with name \""
    /\ \A k \in 1..Len(candidates) :
           \E i \in 1..Len(result) : result[i] = candidates[k].id

\* C21: with two servers that each have a channel "general", resolving
\* "general" without a server identifier fails with an ambiguous-match
\* error whose text names both candidates
C21_AmbiguousAcrossServers ==
    (/\ pc = "called"
     /\ Len(guilds) = 2
     /\ Len(ChannelsNamed("general")) = 2
     /\ GeneralWithoutServer)
    => NamesEvery(outcome.result, ChannelsNamed("general"))

\* C21, as the code has it: the call fails in findGuild, before any channel
\* is looked up, with the error that asks for a server; its text counts
\* the servers and names neither candidate channel, and nothing is fetched
\* or sent
C21_ServerAskedBeforeChannelSearch ==
    (/\ pc = "called"
     /\ Len(guilds) = 2
     /\ Len(ChannelsNamed("general")) = 2
     /\ GeneralWithoutServer)
    => /\ ~outcome.threw
       /\ outcome.result = <<ErrorPrefix, "Bot is in ", "2",
                             " servers. Please specify server name or ID.">>
       /\ \A k \in 1..Len(channels) :
              \A i \in 1..Len(outcome.result) :
                  outcome.result[i] \notin {channels[k].id, channels[k].name}
       /\ outcome.ops = <<>>
       /\ history = History0

C21_Witness ==
    /\ pc = "called"
    /\ guilds = Guilds0
    /\ ChannelsNamed("general") = <<Channels0[1], Channels0[5]>>
    /\ call = [toolName |-> "read_messages", args |-> [channel |-> "general"]]
    /\ outcome.result[2] = "Bot is in "

(***************************************************************************)
(* The name search of findGuild and findChannel.                           *)
(***************************************************************************)
\* the spellings of one name
NameClasses ==
    { {"Home", "home", "HOME"}, {"dup", "Dup"}, {"general", "General"} }

SameName(a, b) == a = b \/ \E cls \in NameClasses : a \in cls /\ b \in cls

\* the identifier without a leading '#'
Bare(ident) ==
    CASE ident = "#general" -> "general"
      [] ident = "#General" -> "General"
      [] OTHER -> ident

\* the call gives its identifiers under the canonical keys
PlainCall ==
    /\ call.toolName \in {"read_messages", "send_message"}
    /\ DOMAIN call.args \subseteq {"channel", "server", "message", "limit"}
    /\ "channel" \in DOMAIN call.args

IsGuildId(ident) == \E i \in 1..Len(guilds) : guilds[i].id = ident

IsChannelId(ident) == \E i \in 1..Len(channels) : channels[i].id = ident

GuildsNamed(ident) == SelectSeq(guilds, LAMBDA g : SameName(g.name, ident))

TextChannelsNamed(guild, ident) ==
    SelectSeq(channels, LAMBDA c : /\ c.guildId = guild.id
                                   /\ c.isText
                                   /\ SameName(c.name, Bare(ident)))

\* the server identifier of the call is searched by name
GuildSearchedByName ==
    /\ PlainCall
    /\ ~Falsy(Arg(call.args, "server"))
    /\ ~IsGuildId(call.args["server"])

\* the server the call resolves to, when it resolves to one
ResolvedGuild ==
    IF Falsy(Arg(call.args, "server"))
    THEN IF Len(guilds) = 1 THEN <<guilds[1]>> ELSE <<>>
    ELSE IF IsGuildId(call.args["server"])
         THEN SelectSeq(guilds, LAMBDA g : g.id = call.args["server"])
         ELSE IF Len(GuildsNamed(call.args["server"])) = 1
              THEN GuildsNamed(call.args["server"])
              ELSE <<>>

\* the channel identifier of the call is searched by name in a resolved server
ChannelSearchedByName ==
    /\ PlainCall
    /\ ResolvedGuild # <<>>
    /\ ~IsChannelId(Bare(call.args["channel"]))

\* the text lists the candidate: its name, then its id two pieces later
Lists(result, name, id) ==
    \E i \in 1..(Len(result) - 2) : result[i] = name /\ result[i + 2] = id

\* C22: in the name search, no match gives a not-found error, one match is
\* the server or channel used, several matches give a multiple-matches
\* error that lists every match with its id; upper and lower case are the
\* same and a leading '#' of the channel identifier is ignored
C22_NameSearch ==
    pc = "called" =>
      /\ GuildSearchedByName =>
           LET ident == call.args["server"]
               hits == GuildsNamed(ident)
           IN  CASE Len(hits) = 0 ->
                      /\ outcome.result = <<ErrorPrefix, "Server \"", ident, "\" not found.">>
                      /\ outcome.ops = <<>>
                 [] Len(hits) = 1 ->
                      /\ findGuild(guilds, <<ident>>) = Ok(hits[1])
                      /\ outcome.result[2] \notin {"Server \"", "Multiple servers found with name \""}
                 [] OTHER ->
                      /\ SubSeq(outcome.result, 1, 4) =
                             <<ErrorPrefix, "Multiple servers found with name \"", ident, "\": ">>
                      /\ \A k \in 1..Len(hits) :
                             Lists(outcome.result, hits[k].name, hits[k].id)
                      /\ outcome.ops = <<>>
      /\ ChannelSearchedByName =>
           LET ident == call.args["channel"]
               guild == ResolvedGuild[1]
               hits == TextChannelsNamed(guild, ident)
           IN  CASE Len(hits) = 0 ->
                      /\ outcome.result = <<ErrorPrefix, "Channel \"", ident,
                                            "\" not found in server \"", guild.name, "\".">>
                      /\ outcome.ops = <<>>
                 [] Len(hits) = 1 ->
                      /\ Len(outcome.ops) = 1
                      /\ outcome.ops[1].channel = hits[1].id
                 [] OTHER ->
                      /\ SubSeq(outcome.result, 1, 4) =
                             <<ErrorPrefix, "Multiple channels found with name \"", ident, "\": ">>
                      /\ \A k \in 1..Len(hits) :
                             Lists(outcome.result, hits[k].name, hits[k].id)
                      /\ outcome.ops = <<>>

\* a server found by a differently cased name, then a channel found by a
\* differently cased name with a leading '#'
C22_Witness ==
    /\ pc = "called"
    /\ GuildSearchedByName
    /\ ChannelSearchedByName
    /\ call.args = [channel |-> "#General", server |-> "Home"]
    /\ call.toolName = "read_messages"
    /\ guilds = <<Guilds0[1]>>
    /\ outcome.ops = <<[op |-> "fetch", channel |-> "c1", limit |-> 50, ok |-> TRUE]>>

\* two channels of one server under one name
C22_WitnessMultiple ==
    /\ pc = "called"
    /\ ChannelSearchedByName
    /\ call.args["channel"] = "Dup"
    /\ outcome.result = <<ErrorPrefix, "Multiple channels found with name \"", "Dup", "\": ",
                          "#", "dup", " (", "c3", ")", ", ", "#", "Dup", " (", "c4", ")">>

(***************************************************************************)
(* The count read_messages asks the platform for.                          *)
(***************************************************************************)
\* the fetches of the call
Fetches == SelectSeq(outcome.ops, LAMBDA o : o.op = "fetch")

\* C23: for every requested limit (absent, 0, negative, above 100) the count
\* that read_messages passes to the platform fetch is a number in 1..100
C23_FetchCountInRange ==
    (pc = "called" /\ call.toolName = "read_messages") =>
        \A i \in 1..Len(Fetches) : Fetches[i].limit \in 1..100

(***************************************************************************)
(* A single request to the MCP tools, through any of the three entry       *)
(* points, on the worlds, names and argument objects below.                *)
(***************************************************************************)
McpNames == {"list-servers", "send-message", "read-messages", "delete-channel"}

McpArgObjects ==
    { EmptyObject,
      [channel |-> "general", server |-> "g1"],
      [channel |-> "general", server |-> "g1", limit |-> 2],
      [channel |-> "general", server |-> "g1", limit |-> 0],
      [channel |-> "general", server |-> "g1", limit |-> 500],
      [channel |-> "#general", server |-> "g1"],
      [channel |-> "c1", server |-> "g1"],
      [channel |-> "c2", server |-> "g1"],
      [channel |-> "nowhere", server |-> "g1"],
      [channel |-> "general", server |-> "g1", message |-> "hi"],
      [channel |-> "general", server |-> "g1", message |-> ""],
      [channel |-> "locked", server |-> "g1", message |-> "hi"],
      [channel |-> "general", message |-> "hi"],
      [server |-> "g1", message |-> "hi"],
      [server |-> "g1", limit |-> 0] }

\* a channel with three messages, the oldest first
HistoryThree ==
    [History0 EXCEPT !["c1"] =
        <<[id |-> "m1", author |-> "alice", content |-> "hello"],
          [id |-> "m2", author |-> "bob", content |-> "second"],
          [id |-> "m3", author |-> "alice", content |-> "third"]>>]

InitMcp ==
    /\ guilds \in {<<Guilds0[1]>>, Guilds0}
    /\ channels = ChannelsOf(guilds)
    /\ denied \in {{}, Denied0}
    /\ history \in {History0, HistoryThree}
    /\ apiKeySet = TRUE
    /\ pc = "call"
    /\ event \in {e \in InboundMessages : e.isDM}
    /\ HandlerIdle
    /\ call \in [toolName : McpNames, args : McpArgObjects]
    /\ outcome = NoOutcome
    /\ peer = NoPeer

ServeSettles(entry, out) ==
    /\ outcome' = [entry |-> entry, threw |-> out.threw, result |-> out.result,
                   error |-> out.error, ops |-> out.ops]
    /\ history' = out.history
    /\ platformOps' = out.ops
    /\ pc' = "called"
    /\ UNCHANGED <<guilds, channels, denied, apiKeySet, event, call, peer, messages,
                   assistantMessage, depth, toolResults, request, requestCount, executed,
                   rounds, synthAt, replyVars, error, failedStep>>

ServeChat ==
    /\ pc = "call"
    /\ ServeSettles("chat", CallToolChat(call.toolName, call.args, guilds, channels,
                                         history, denied))

ServeRecursive ==
    /\ pc = "call"
    /\ ServeSettles("recursive", CallTool(call.toolName, call.args, guilds, channels,
                                          history, denied))

ServeSingleRound ==
    /\ pc = "call"
    /\ ServeSettles("single-round",
                    CallToolSingleRound(call.toolName, call.args, guilds, channels,
                                        history, denied))

NextMcp ==
    \/ ServeChat
    \/ ServeRecursive
    \/ ServeSingleRound

SpecMcp == InitMcp /\ [][NextMcp]_vars

(***************************************************************************)
(* The order of the messages a read returns.                               *)
(***************************************************************************)
\* the message texts of the model, and those a result carries, in its order
MessageTexts == {"hello", "second", "third"}

ContentsOf(result) == SelectSeq(result, LAMBDA piece : piece \in MessageTexts)

\* the newest k messages of a channel, the oldest of them first
OldestFirst(channelId, k) ==
    [i \in 1..Min(k, Len(history[channelId])) |->
        history[channelId][Len(history[channelId]) - Min(k, Len(history[channelId])) + i]
            .content]

\* the request was a read whose fetch succeeded
ReadServed ==
    /\ pc = "called"
    /\ ~outcome.threw
    /\ Len(outcome.ops) = 1
    /\ outcome.ops[1].op = "fetch"
    /\ outcome.ops[1].ok

\* C24: in every entry point, a read returns the fetched messages oldest
\* first, the reverse of the order of the platform's fetch
C24_ReadOldestFirst ==
    ReadServed =>
        ContentsOf(outcome.result) =
            OldestFirst(outcome.ops[1].channel, outcome.ops[1].limit)

(***************************************************************************)
(* Validation of the arguments of an MCP request.                          *)
(***************************************************************************)
\* the arguments do not fit the declared schema of the tool
InvalidRequest ==
    \/ /\ call.toolName = "send-message"
       /\ {"channel", "message"} \ DOMAIN call.args # {}
    \/ /\ call.toolName = "read-messages"
       /\ \/ "channel" \notin DOMAIN call.args
          \/ /\ "limit" \in DOMAIN call.args
             /\ call.args["limit"] \notin 1..100

\* C28: in every entry point that exposes the MCP tools, a send-message or
\* read-messages request whose arguments do not fit the declared schema
\* ends in an invalid-arguments error with no fetch and no send, and a
\* read without a limit fetches 50
C28_InvalidArgumentsRejected ==
    pc = "called" =>
      /\ InvalidRequest =>
           /\ outcome.threw
           /\ outcome.error # <<>>
           /\ outcome.error[1] = "Invalid arguments: "
           /\ outcome.ops = <<>>
      /\ (/\ call.toolName = "read-messages"
          /\ "limit" \notin DOMAIN call.args
          /\ Len(outcome.ops) = 1)
         => outcome.ops[1].limit = 50

(***************************************************************************)
(* Messages the handler does not answer.                                   *)
(***************************************************************************)
\* the author is a bot (the bot itself included), or the message neither
\* mentions the bot nor is a direct message
NotForTheBot == event.authorBot \/ (~event.mentioned /\ ~event.isDM)

\* C26: a message of a bot, or one that neither mentions the bot nor
\* arrives in a DM, causes no typing indicator, no completion request, no
\* tool execution and no reply
C26_BotAndUnaddressedIgnored ==
    NotForTheBot =>
        /\ pc \in {"start", "ignored"}
        /\ requestCount = 0
        /\ request = <<>>
        /\ rounds = 0
        /\ executed = <<>>
        /\ platformOps = <<>>
        /\ replyCalls = <<>>
        /\ replies = <<>>
        /\ history = History0

\* a message of the bot that mentions the bot has been dropped
C26_Witness ==
    /\ event.authorBot
    /\ event.mentioned
    /\ pc = "ignored"

(***************************************************************************)
(* The turn obtained after the fifth round.                                *)
(***************************************************************************)
\* the loop returned on a turn without tool calls that it does not read as
\* a tool call either
ReturnedOnAnswerTurn ==
    /\ LoopReturned
    /\ failedStep = "none"
    /\ Field(assistantMessage, "tool_calls") = <<>>
    /\ ~(/\ LooksLikeToolCall(Field(assistantMessage, "content"))
         /\ JSONParse(Field(assistantMessage, "content")).ok)

\* C29: when the turn obtained after the 5th round carries no tool calls,
\* the loop returns the text it returns for that turn at any lower depth:
\* the content without its preamble, else the reasoning, else the generic
\* acknowledgement
C29_AnswerAfterFifthRound ==
    (ReturnedOnAnswerTurn /\ depth = MAX_DEPTH) =>
        response = FinalText(assistantMessage)

(***************************************************************************)
(* Two concurrent events.  The handler of the first event runs as above;   *)
(* peer is callLLMWithTools running for a second event, from its first     *)
(* turns to its return, written over fields of its own.  The two share the *)
(* platform: the servers, the channels and their messages.                 *)
(***************************************************************************)
MaxPeerRounds == 1

PeerEvent ==
    [authorBot |-> FALSE, mentioned |-> FALSE, isDM |-> TRUE, channelId |-> "dm1",
     guildName |-> <<>>, content |-> <<"y", "o">>]

\* what the model answers to the first event, and to the second
TwoTurns ==
    { Assistant(<<>>, <<>>,
                <<ToolCall("call_1", "send_message", ArgsSendOk),
                  ToolCall("call_2", "read_messages", ArgsReadOk)>>),
      Assistant(TxtHi, <<>>, <<>>) }

PeerTurns ==
    { Assistant(<<>>, <<>>,
                <<ToolCall("peer_1", "send_message", ArgsSendYo),
                  ToolCall("peer_2", "read_messages", ArgsReadOk)>>),
      Assistant(TxtReason, <<>>, <<>>) }

InitTwo ==
    /\ guilds = Guilds0
    /\ channels = Channels0
    /\ denied = Denied0
    /\ history = History0
    /\ apiKeySet = TRUE
    /\ pc = "start"
    /\ event \in {e \in InboundMessages : ~Ignores(e) /\ e.mentioned}
    /\ HandlerIdle
    /\ call = NoCall
    /\ outcome = NoOutcome
    /\ peer = [NoPeer EXCEPT !.pc = "context", !.event = PeerEvent]

\* a step of the peer leaves the first handler's variables alone
PeerOnly ==
    UNCHANGED <<guilds, channels, denied, apiKeySet, event, call, outcome, pc, loopVars,
                replyVars, error, failedStep>>

\* the peer's first two turns and its initial completion request
PeerFetchContext ==
    /\ peer.pc = "context"
    /\ peer' = [peer EXCEPT
           !.messages = LocalMessages(
               << [role |-> "system",
                   content |-> SystemPrompt(peer.event,
                                   ContextMessages(
                                       FetchNewest(history[peer.event.channelId], 5)))],
                  [role |-> "user",
                   content |-> Trim(RemoveMentions(peer.event.content))] >>,
               messages),
           !.request = LocalMessages(
               << [role |-> "system",
                   content |-> SystemPrompt(peer.event,
                                   ContextMessages(
                                       FetchNewest(history[peer.event.channelId], 5)))],
                  [role |-> "user",
                   content |-> Trim(RemoveMentions(peer.event.content))] >>,
               messages),
           !.pc = "initial"]
    /\ UNCHANGED history
    /\ PeerOnly

\* the peer's initial request settles
PeerInitialResponse ==
    /\ peer.pc = "initial"
    /\ \/ peer' = [peer EXCEPT !.pc = "failed"]
       \/ \E r \in PeerTurns :
              peer' = [peer EXCEPT !.assistantMessage = r, !.depth = 0, !.pc = "loop"]
    /\ UNCHANGED history
    /\ PeerOnly

\* entry of executeToolsRecursively for the peer
PeerLoopEntry ==
    /\ peer.pc = "loop"
    /\ peer' =
         IF DepthExceeded(peer.depth)
         THEN [peer EXCEPT !.response = DepthExceededText(peer.assistantMessage),
                           !.pc = "returned"]
         ELSE IF Field(peer.assistantMessage, "tool_calls") = <<>>
         THEN IF /\ LooksLikeToolCall(Field(peer.assistantMessage, "content"))
                 /\ JSONParse(Field(peer.assistantMessage, "content")).ok
              THEN [peer EXCEPT !.assistantMessage =
                        syntheticToolCall(JSONParse(Field(peer.assistantMessage,
                                                          "content")).val)]
              ELSE [peer EXCEPT !.response = FinalText(peer.assistantMessage),
                                !.pc = "returned"]
         ELSE [peer EXCEPT !.toolResults = <<>>, !.pc = "tools"]
    /\ UNCHANGED history
    /\ PeerOnly

\* the peer's awaited executeDiscordTool settles with out
PeerToolSettles(toolCall, out, results) ==
    /\ history' = out.history
    /\ peer' =
         IF RoundComplete(peer.assistantMessage.tool_calls, results)
         THEN [peer EXCEPT !.toolResults = results,
                           !.request = peer.messages \o <<peer.assistantMessage>>
                                       \o results,
                           !.pc = "followup"]
         ELSE [peer EXCEPT !.toolResults = results]

PeerRunToolCall(toolCall, out) ==
    PeerToolSettles(toolCall, out,
                    Append(peer.toolResults, ToolResultTurn(toolCall, out.result)))

\* one iteration of the peer's for loop over tool_calls
PeerExecuteTool ==
    /\ peer.pc = "tools"
    /\ PeerRunToolCall(
           peer.assistantMessage.tool_calls[Len(peer.toolResults) + 1],
           executeDiscordTool(
               peer.assistantMessage.tool_calls[Len(peer.toolResults) + 1].function.name,
               ParseArguments(peer.assistantMessage.tool_calls[Len(peer.toolResults) + 1]
                                  .function.arguments),
               guilds, channels, history, denied))
    /\ PeerOnly

\* the peer's follow-up request settles
PeerFollowUpResponse ==
    /\ peer.pc = "followup"
    /\ \/ peer' = [peer EXCEPT !.pc = "failed"]
       \/ \E r \in PeerTurns :
              /\ Field(r, "tool_calls") # <<>> => peer.depth + 1 < MaxPeerRounds
              /\ peer' = [peer EXCEPT
                     !.assistantMessage = r,
                     !.messages = peer.messages \o <<peer.assistantMessage>>
                                  \o peer.toolResults,
                     !.depth = NextDepth(peer.depth),
                     !.pc = "loop"]
    /\ UNCHANGED history
    /\ PeerOnly

InitialTwo == InitialSettles(TwoTurns)

FollowUpTwo == FollowUpSettles(TwoTurns)

NextTwo ==
    \/ MessageCreate
    \/ SendTyping
    \/ FetchContext
    \/ InitialTwo
    \/ LoopEntry
    \/ ExecuteTool
    \/ FollowUpTwo
    \/ ReplySettles
    \/ ApologySettles
    \/ PeerFetchContext
    \/ PeerInitialResponse
    \/ PeerLoopEntry
    \/ PeerExecuteTool
    \/ PeerFollowUpResponse

SpecTwo == InitTwo /\ [][NextTwo]_vars

(***************************************************************************)
(* Independence of the loop instances of two concurrent events.            *)
(***************************************************************************)
Range(s) == {s[i] : i \in DOMAIN s}

\* the turn was produced for the first event: its system prompt and user
\* prompt, the model's answers to it, the results of its tool calls
ForFirst(turn) ==
    CASE turn.role = "system" ->
           turn.content = SystemPrompt(event, SubSeq(turn.content, 4, Len(turn.content)))
      [] turn.role = "user" -> turn.content = Trim(RemoveMentions(event.content))
      [] turn.role = "assistant" -> turn \in TwoTurns
      [] turn.role = "tool" -> turn.tool_call_id \in {"call_1", "call_2"}
      [] OTHER -> FALSE

\* the turn was produced for the second event
ForPeer(turn) ==
    CASE turn.role = "system" ->
           turn.content = SystemPrompt(peer.event,
                                       SubSeq(turn.content, 4, Len(turn.content)))
      [] turn.role = "user" -> turn.content = Trim(RemoveMentions(peer.event.content))
      [] turn.role = "assistant" -> turn \in PeerTurns
      [] turn.role = "tool" -> turn.tool_call_id \in {"peer_1", "peer_2"}
      [] OTHER -> FALSE

AssistantTurns(turns) == Len(SelectSeq(turns, LAMBDA t : t.role = "assistant"))

\* what the loop returns for its last turn when it runs alone
AloneResult ==
    IF depth >= MAX_DEPTH THEN DepthExceededText(assistantMessage)
    ELSE FinalText(assistantMessage)

\* every turn of either instance, and of its requests, is its own; the
\* depth counts the instance's own rounds and the result is the one of
\* the instance's last turn
OwnTurnsOnly ==
    /\ \A turn \in Range(messages) \cup Range(request) : ForFirst(turn) /\ ~ForPeer(turn)
    /\ \A turn \in Range(peer.messages) \cup Range(peer.request) :
           ForPeer(turn) /\ ~ForFirst(turn)
    /\ depth = AssistantTurns(messages)
    /\ peer.depth = AssistantTurns(peer.messages)
    /\ depth <= MAX_DEPTH
    /\ rounds <= MAX_DEPTH
    /\ (LoopReturned /\ failedStep = "none") => response = AloneResult

\* a step changes the loop state of one instance only
OwnStepsOnly ==
    \/ UNCHANGED <<messages, assistantMessage, depth, toolResults, request, response>>
    \/ UNCHANGED peer

\* C25: under any interleaving of the handlers of two concurrent events,
\* the turn sequence and the depth of each loop instance are read and
\* changed by its own steps only: no request of one event contains a turn
\* produced for the other, and the depth bound and the result of an
\* instance are those of its own turns
C25_LoopStateIsPerEvent == [](OwnTurnsOnly) /\ [][OwnStepsOnly]_vars

\* both instances ran to their return, the first one reading the channel
\* after the second one had sent to it
C25_Witness ==
    /\ LoopReturned
    /\ depth = 2
    /\ peer.pc = "returned"
    /\ peer.depth = 1
    /\ \E i \in 1..Len(messages) :
           /\ messages[i].role = "tool"
           /\ \E k \in 1..Len(messages[i].content) : messages[i].content[k] = "yo"
    /\ \E i \in 1..Len(peer.messages) :
           /\ peer.messages[i].role = "tool"
           /\ \E k \in 1..Len(peer.messages[i].content) :
                  peer.messages[i].content[k] = "hi"

(***************************************************************************)
(* The order of the tool calls of a round.                                 *)
(***************************************************************************)
\* the calls executed in the round under way, in the order of execution
ExecutedInRound == SelectSeq(executed, LAMBDA e : e.depth = depth)

\* the platform operation a call of the two-event model performs
OpOf(name) == IF name = "send_message" THEN "send" ELSE "fetch"

\* the calls of the round that have run are its first ones, in the order
\* of the turn, each with its result and its platform operation, and a
\* read that follows a send of its round sees the message sent
InRequestOrder ==
    /\ pc \in {"tools", "followup"} =>
         /\ Len(ExecutedInRound) = Len(toolResults)
         /\ \A i \in 1..Len(toolResults) :
                /\ ExecutedInRound[i].id = assistantMessage.tool_calls[i].id
                /\ toolResults[i].tool_call_id = assistantMessage.tool_calls[i].id
         /\ Len(toolResults) = 2 =>
                Count(toolResults[2].content, "hi") = depth + 1
    /\ Len(platformOps) = Len(executed)
    /\ \A i \in 1..Len(executed) : platformOps[i].op = OpOf(executed[i].name)

\* a step of the round runs exactly the next call of the turn, from its
\* start to its result
OneCallAtATime ==
    (pc = "tools" /\ executed' # executed) =>
        /\ Len(toolResults) < Len(assistantMessage.tool_calls)
        /\ executed' = Append(executed,
               [depth |-> depth,
                id |-> assistantMessage.tool_calls[Len(toolResults) + 1].id,
                name |-> assistantMessage.tool_calls[Len(toolResults) + 1].function.name])
        /\ Len(toolResults') = Len(toolResults) + 1
        /\ Len(platformOps') = Len(platformOps) + 1

\* C30: the tool calls of a round are executed one at a time in the order
\* received: call i+1 starts only after call i has produced its result,
\* so the platform effects of a round occur in request order and do not
\* overlap within one loop instance
C30_CallsInRequestOrder == [](InRequestOrder) /\ [][OneCallAtATime]_vars

\* the second round has sent and then read: the read shows both messages
\* sent by this instance
C30_Witness ==
    /\ pc = "followup"
    /\ depth = 1
    /\ Len(toolResults) = 2
    /\ platformOps[3].op = "send"
    /\ platformOps[4].op = "fetch"
    /\ Count(toolResults[2].content, "hi") = 2

(***************************************************************************)
(* The handler when every awaited call settles.  The model calls tools,    *)
(* writes tool calls as text, and answers in one part or in several; an    *)
(* awaited call that has been issued is eventually answered, with a        *)
(* success or with a failure, and a synchronous step is eventually taken.  *)
(***************************************************************************)
LiveTurns ==
    { Assistant(<<>>, <<>>,
                <<ToolCall("call_1", "send_message", ArgsSendOk),
                  ToolCall("call_2", "read_messages", ArgsLocked)>>),
      Assistant(TxtJsonRead, <<>>, <<>>),
      Assistant(TxtHi, <<>>, <<>>),
      Assistant(TxtThreeParts, <<>>, <<>>),
      Assistant(<<>>, <<>>, <<>>) }

InitialLive == InitialSettles(LiveTurns)

FollowUpLive == FollowUpSettles(LiveTurns)

NextLive ==
    \/ MessageCreate
    \/ SendTyping
    \/ FetchContext
    \/ InitialLive
    \/ LoopEntry
    \/ ExecuteTool
    \/ FollowUpLive
    \/ ReplySettles
    \/ ApologySettles

\* the steps that wait for a call to settle
Settling ==
    \/ MessageCreate
    \/ SendTyping
    \/ FetchContext
    \/ InitialLive
    \/ FollowUpLive
    \/ ReplySettles
    \/ ApologySettles

\* weak fairness of LoopEntry, which is enabled exactly when pc = "loop"
\* and is the only step taken from there
LoopEntryFair == []<>(pc # "loop") \/ []<><<pc = "loop">>_vars

\* weak fairness of ExecuteTool, which is enabled exactly when pc = "tools"
\* and is the only step taken from there
ExecuteToolFair == []<>(pc # "tools") \/ []<><<pc = "tools">>_vars

SpecLive ==
    Init /\ [][NextLive]_vars /\ WF_vars(Settling) /\ LoopEntryFair /\ ExecuteToolFair

(***************************************************************************)
(* Every message for the bot is answered.                                  *)
(***************************************************************************)
\* the author is not a bot, and the message mentions the bot or is a DM
Addressed == ~event.authorBot /\ (event.mentioned \/ event.isDM)

\* the platform refused the typing indicator or a reply
TypingOrReplyRefused == failedStep \in {"typing", "reply"} \/ pc = "rejected"

\* C27: every message of a non-bot author that mentions the bot or arrives
\* in a DM eventually receives a reply (the answer, its parts, or the
\* apology) unless the platform refuses the typing indicator or a reply,
\* and the handler, with its tool loop and its splitting loop, comes to
\* an end
C27_AddressedMessageIsAnswered ==
    /\ (pc = "start" /\ Addressed) ~> (replies # <<>> \/ TypingOrReplyRefused)
    /\ (pc = "start") ~> Terminated

\* after five rounds of tools an answer in three parts has been delivered
C27_Witness ==
    /\ Addressed
    /\ pc = "done"
    /\ rounds = MAX_DEPTH
    /\ Len(parts) = 3
    /\ Len(replies) = 3
    /\ failedStep = "none"

(***************************************************************************)
(* The turns of the follow-up requests.                                    *)
(***************************************************************************)
CarriesCalls(turn) == Field(turn, "tool_calls") # <<>>

IsResult(turn) == "tool_call_id" \in DOMAIN turn

IsPrefixOf(a, b) == Len(a) <= Len(b) /\ SubSeq(b, 1, Len(a)) = a

\* the turn at i is followed by the results of its calls, one per call and
\* in the order of the calls, and by no further result
AnsweredAt(seq, i) ==
    /\ i + Len(seq[i].tool_calls) <= Len(seq)
    /\ \A j \in 1..Len(seq[i].tool_calls) :
          /\ IsResult(seq[i + j])
          /\ seq[i + j].tool_call_id = seq[i].tool_calls[j].id
    /\ i + Len(seq[i].tool_calls) < Len(seq) =>
          ~IsResult(seq[i + Len(seq[i].tool_calls) + 1])

CallsAnswered(seq) ==
    /\ \A i \in 1..Len(seq) : CarriesCalls(seq[i]) => AnsweredAt(seq, i)
    /\ seq # <<>> => ~IsResult(seq[1])
    /\ \A i \in 2..Len(seq) :
          IsResult(seq[i]) => IsResult(seq[i - 1]) \/ CarriesCalls(seq[i - 1])

\* a follow-up request is the request before it, then the turn of the
\* round, then the results of the round
RequestGrowsByRound ==
    (request # <<>> /\ request' # request) =>
        /\ request' = request \o <<assistantMessage>> \o toolResults'
        /\ Len(toolResults') = Len(assistantMessage.tool_calls)
        /\ assistantMessage' = assistantMessage

\* the array handed to the loop keeps its turns
MessagesKept == messages # <<>> => IsPrefixOf(messages, messages')

\* C31: the turns of the follow-up request of a round are the turns of the
\* previous request, then the assistant turn of the round, then its result
\* turns in order; the turns sent before are not removed, reordered or
\* changed, the array of the caller stays as it is during the round, and
\* in every request each turn with tool calls is followed at once by
\* exactly its own results.
C31_FollowUpExtendsPreviousRequest ==
    /\ [](CallsAnswered(request))
    /\ [][RequestGrowsByRound /\ MessagesKept]_vars
    /\ [][pc = "tools" => messages' = messages]_vars

\* the follow-up request of the second round is in flight: it holds the
\* turns and results of two rounds
C31_Witness ==
    /\ pc = "followup"
    /\ requestCount = 3
    /\ Len(SelectSeq(request, CarriesCalls)) = 2
    /\ Len(SelectSeq(request, IsResult)) >= 5

(***************************************************************************)
(* The roles of the turns sent to the completion endpoint.                 *)
(***************************************************************************)
Roles == {"system", "user", "assistant", "tool"}

RoleOf(turn) == IF "role" \in DOMAIN turn THEN turn.role ELSE "undefined"

WellFormedTurn(turn) ==
    /\ RoleOf(turn) \in Roles
    /\ CarriesCalls(turn) => RoleOf(turn) = "assistant"
    /\ IsResult(turn) => RoleOf(turn) = "tool"

\* C32: every turn of every sequence sent to the completion endpoint has
\* one of the roles system, user, assistant and tool; a turn with tool
\* calls has the role assistant and a turn with a tool_call_id has the
\* role tool, the turn of a synthesized tool call included.
C32_TurnsHaveRoles ==
    \A i \in 1..Len(request) : WellFormedTurn(request[i])

(***************************************************************************)
(* Deliveries of send_message in a run that ends in an error of the        *)
(* completion endpoint.                                                    *)
(***************************************************************************)
Delivered(o) == o.op = "send" /\ o.ok

\* the messages the tool rounds of this event delivered to channels
Deliveries == SelectSeq(platformOps, Delivered)

\* C33: a run of the loop that ends in an error of a completion request
\* has delivered no text to any channel: the user is never sent the
\* apology for an event whose message was delivered by send_message.
C33_NoDeliveryBeforeTransportError ==
    failedStep = "llm" => Deliveries = <<>>

(***************************************************************************)
(* The handler with a model whose turns carry structured tool calls next   *)
(* to content that reads like a tool call.                                 *)
(***************************************************************************)
SniffTurns ==
    { Assistant(TxtJsonRead, <<>>,
                <<ToolCall("call_1", "list_servers", ArgsEmpty)>>),
      Assistant(ArgsSendOk, TxtReason,
                <<ToolCall("call_1", "read_messages", ArgsReadOk),
                  ToolCall("call_2", "list_servers", ArgsEmpty)>>),
      Assistant(TxtJsonRead, <<>>, <<>>),
      Assistant(TxtHi, <<>>, <<>>) }

InitialSniff == InitialSettles(SniffTurns)

FollowUpSniff == FollowUpSettles(SniffTurns)

NextSniff ==
    \/ MessageCreate
    \/ SendTyping
    \/ FetchContext
    \/ InitialSniff
    \/ LoopEntry
    \/ ExecuteTool
    \/ FollowUpSniff
    \/ ReplySettles
    \/ ApologySettles

SpecSniff == Init /\ [][NextSniff]_vars

\* the turn came from the completion endpoint with tool calls of its own
Structured(am) == RoleOf(am) = "assistant" /\ CarriesCalls(am)

\* the calls executed in the round at depth d
ExecutedAt(d) == SelectSeq(executed, LAMBDA e : e.depth = d)

\* the calls executed so far in the current round are the first calls of
\* the turn, by id and by name
RunsItsOwnCalls ==
    /\ Len(ExecutedAt(depth)) <= Len(assistantMessage.tool_calls)
    /\ \A i \in 1..Len(ExecutedAt(depth)) :
          /\ ExecutedAt(depth)[i].id = assistantMessage.tool_calls[i].id
          /\ ExecutedAt(depth)[i].name = assistantMessage.tool_calls[i].function.name

\* a turn with tool calls is taken to the for loop as it is
StructuredTurnKept ==
    (pc = "loop" /\ CarriesCalls(assistantMessage) /\ ~DepthExceeded(depth)) =>
        /\ assistantMessage' = assistantMessage
        /\ synthAt' = synthAt
        /\ pc' = "tools"

\* a call is synthesized only from a turn without tool calls, below the
\* depth limit
RecoveryOnlyWithoutCalls ==
    synthAt' # synthAt =>
        /\ pc = "loop"
        /\ ~CarriesCalls(assistantMessage)
        /\ depth < MAX_DEPTH
        /\ synthAt' = Append(synthAt, depth)

\* C34: the recovery of a tool call from JSON content is applied only to
\* a turn without structured tool calls: for a turn with tool calls the
\* calls executed are exactly the calls of the turn, whatever its content
\* is, and no call is synthesized at depth MAX_DEPTH or beyond.
C34_RecoveryOnlyWithoutStructuredCalls ==
    /\ []((pc \in {"tools", "followup"} /\ Structured(assistantMessage)) =>
             /\ RunsItsOwnCalls
             /\ \A i \in 1..Len(synthAt) : synthAt[i] # depth)
    /\ [](\A i \in 1..Len(synthAt) : synthAt[i] < MAX_DEPTH)
    /\ [][StructuredTurnKept /\ RecoveryOnlyWithoutCalls]_vars

\* a round of two structured calls has run for a turn whose content reads
\* as a send_message call, after a round recovered from content, and
\* nothing was sent
C34_Witness ==
    /\ pc = "followup"
    /\ Structured(assistantMessage)
    /\ LooksLikeToolCall(assistantMessage.content)
    /\ Len(ExecutedAt(depth)) = 2
    /\ synthAt = <<0>>
    /\ depth = 1
    /\ Deliveries = <<>>

\* at the depth limit a turn whose content reads as a tool call is
\* answered with its content
C34_WitnessAtLimit ==
    /\ pc = "replying"
    /\ depth = MAX_DEPTH
    /\ ~CarriesCalls(assistantMessage)
    /\ LooksLikeToolCall(assistantMessage.content)
    /\ response = assistantMessage.content

(***************************************************************************)
(* The preference among the break points of a chunk.                       *)
(***************************************************************************)
\* the 0-based positions in lo..hi at which pat starts in t
BreaksIn(t, pat, lo, hi) == {i \in lo..hi : MatchAt(t, pat, i)}

\* the paragraph breaks in the back half of the window
ParagraphBreaks(t) == BreaksIn(t, <<"\n", "\n">>, (MAX_LENGTH \div 2) + 1, MAX_LENGTH)

\* the sentence ends in the back 30% of the window
SentenceEnds(t) == BreaksIn(t, <<".", " ">>, ((7 * MAX_LENGTH) \div 10) + 1, MAX_LENGTH)

\* the line breaks in the back 30% of the window
LineBreaks(t) == BreaksIn(t, <<"\n">>, ((7 * MAX_LENGTH) \div 10) + 1, MAX_LENGTH)

PreferredCut(t) ==
    IF ParagraphBreaks(t) # {} THEN SetMax(ParagraphBreaks(t))
    ELSE IF SentenceEnds(t) # {} THEN SetMax(SentenceEnds(t)) + 1
    ELSE IF LineBreaks(t) # {} THEN SetMax(LineBreaks(t))
    ELSE MAX_LENGTH

RECURSIVE PreferredChunks(_)
\* the chunks obtained by cutting at the preferred point while the rest is
\* longer than the limit
PreferredChunks(t) ==
    IF Len(t) = 0 THEN <<>>
    ELSE IF Len(t) <= MAX_LENGTH THEN <<t>>
    ELSE <<Trim(SubSeq(t, 1, PreferredCut(t)))>>
         \o PreferredChunks(Trim(SubSeq(t, PreferredCut(t) + 1, Len(t))))

\* C35: while the rest of the answer is longer than the limit, each chunk
\* ends at the last paragraph break in the back half of the window; if
\* there is none, just after the last sentence end in the back 30% of the
\* window; if there is none, at the last line break in the back 30%; and
\* otherwise at exactly MAX_LENGTH characters.  A break of lower preference
\* is not used when one of higher preference lies in its range.
C35_SplitPointPreference ==
    (LoopReturned /\ Len(response) > MAX_LENGTH) => parts = PreferredChunks(response)

\* the paragraph break at 1000 is taken although a sentence ends at 1702
C35_Witness ==
    /\ LoopReturned
    /\ response = TxtParaBeforeSentence
    /\ SentenceEnds(response) = {1702}
    /\ parts[1] = Repeat("a", 1000)
    /\ Len(parts) = 2

(***************************************************************************)
(* The length of the replies of an answer.                                 *)
(***************************************************************************)
PlatformLimit == 2000

\* numbers of parts up to the most a string of the runtime can be cut into
PartCounts == {2, 9, 10, 99, 100, 999, 1000, 99999, 100000, 550073}

\* C36: every reply issued for an answer, with its part marker when the
\* answer was split, has at most 2000 characters, whatever the answer is
\* and however many parts it has.
C36_RepliesWithinPlatformLimit ==
    /\ (LoopReturned /\ failedStep = "none") =>
          \A i \in 1..Len(replyCalls) : Len(replyCalls[i]) <= PlatformLimit
    /\ \A n \in PartCounts : Len(Header(n, n)) + MAX_LENGTH + 1 <= PlatformLimit

\* the longest reply of the model: a chunk of 1951 characters behind the
\* marker of part 1 of 2
C36_Witness ==
    /\ pc = "done"
    /\ failedStep = "none"
    /\ response = TxtSentenceAtLimit
    /\ Len(replies) = 2
    /\ Len(replies[1]) = 1967

(***************************************************************************)
(* The order of the ID lookup and the name search.                         *)
(***************************************************************************)
\* the text channels of guild whose id is ident
TextChannelsWithId(guild, ident) ==
    SelectSeq(channels, LAMBDA c : /\ c.id = Bare(ident)
                                   /\ c.isText
                                   /\ c.guildId = guild.id)

\* the outcome is the one of the name search for ident among the text
\* channels of guild
NameSearchOutcome(guild, ident) ==
    CASE Len(TextChannelsNamed(guild, ident)) = 0 ->
           /\ outcome.result = <<ErrorPrefix, "Channel \"", ident,
                                 "\" not found in server \"", guild.name, "\".">>
           /\ outcome.ops = <<>>
      [] Len(TextChannelsNamed(guild, ident)) = 1 ->
           /\ Len(outcome.ops) = 1
           /\ outcome.ops[1].channel = TextChannelsNamed(guild, ident)[1].id
      [] OTHER ->
           /\ SubSeq(outcome.result, 1, 4) =
                  <<ErrorPrefix, "Multiple channels found with name \"", ident, "\": ">>
           /\ outcome.ops = <<>>

\* C37: the lookup by ID comes first and the name search is used whenever
\* the lookup gives no usable target: an identifier that is the ID of a
\* server, or of a text channel of the resolved server, gives that target,
\* and an identifier that is the ID of a channel that is not a text
\* channel, or of a channel of another server, is searched by name in the
\* resolved server like an identifier that is no ID at all.
C37_IdLookupThenNameSearch ==
    (pc = "called" /\ PlainCall /\ ResolvedGuild # <<>>) =>
        /\ (~Falsy(Arg(call.args, "server")) /\ IsGuildId(call.args["server"])) =>
              ResolvedGuild[1].id = call.args["server"]
        /\ IF TextChannelsWithId(ResolvedGuild[1], call.args["channel"]) # <<>>
           THEN /\ Len(outcome.ops) = 1
                /\ outcome.ops[1].channel = Bare(call.args["channel"])
           ELSE NameSearchOutcome(ResolvedGuild[1], call.args["channel"])

(***************************************************************************)
(* The channel used by a call lies in the server the call resolved.        *)
(***************************************************************************)
\* the server findGuild returns for the call, after normalizeToolArgs
GuildOfCall ==
    findGuild(guilds, Arg(normalizeToolArgs(call.toolName, call.args).val, "server"))

\* the channel with this id, as the client knows it
ChannelWithId(id) == SelectSeq(channels, LAMBDA c : c.id = id)

\* C38: a channel that findChannel returns is a text channel of the server
\* that findGuild returns for the same call, so a fetch or a send of
\* read_messages and send_message reaches a channel of that server only,
\* also when the call names the ID of a channel of another server.
C38_ChannelInResolvedServer ==
    (pc = "called" /\ call.toolName \in {"read_messages", "send_message"}) =>
        \A i \in 1..Len(outcome.ops) :
            /\ GuildOfCall.ok
            /\ Len(ChannelWithId(outcome.ops[i].channel)) = 1
            /\ ChannelWithId(outcome.ops[i].channel)[1].isText
            /\ ChannelWithId(outcome.ops[i].channel)[1].guildId = GuildOfCall.val.id

\* with a channel general in each of two servers, a read that names the
\* first server reaches the channel of that server
C38_Witness ==
    /\ pc = "called"
    /\ Len(guilds) = 2
    /\ call.toolName = "read_messages"
    /\ call.args = [channel |-> "general", server |-> "g1"]
    /\ outcome.ops = <<[op |-> "fetch", channel |-> "c1", limit |-> 50, ok |-> TRUE]>>

\* the ID of a channel of the other server is refused without a fetch
C38_WitnessOtherServer ==
    /\ pc = "called"
    /\ Len(guilds) = 2
    /\ call.args = [channel |-> "c5", server |-> "g1"]
    /\ call.toolName = "read_messages"
    /\ outcome.ops = <<>>
    /\ HasErrorPrefix(outcome.result)

(***************************************************************************)
(* The error of a completion request that is answered with a non-success   *)
(* status.                                                                 *)
(***************************************************************************)
\* the errors a failed initial request ends with: the rejection of the
\* fetch, and the error built from the envelope of a non-success status
InitialRequestErrors ==
    { <<"request to openrouter.ai failed">>, <<"LLM API error: ", EnvelopeMessage>> }

\* C39: a follow-up request answered with a non-success status and the
\* error envelope fails the loop with the error of an initial request so
\* answered, 'LLM API error: ' followed by the message of the envelope,
\* and with no other fault raised while the response is read.
C39_FollowUpStatusIsApiError ==
    (failedStep = "llm" /\ requestCount >= 2) => error \in InitialRequestErrors

====
